---- MODULE Spec2Model ----
(***************************************************************************)
(* A model of the personna repository: the sentiment batch protocol        *)
(* (src/src/sentiment_analyzer.py), the vector store adapter               *)
(* (src/src/vector_store.py), the markdown comment codec                   *)
(* (src/src/reddit_client.py, src/src/markdown_parser.py), the persona     *)
(* file parser (src/src/markdown_parser.py) and the per-user loops of the  *)
(* fetch, personas and embed commands (src/src/cli.py), the reading of a   *)
(* user file (parse_usernames), the reading of a post URL                  *)
(* (_parse_submission_id), the interest command, and whole runs of the     *)
(* fetch and embed commands over a directory of files.                     *)
(*                                                                         *)
(* Text is modelled as a sequence of tokens (LLM responses) or of lines    *)
(* (markdown documents); every regular expression of the source is         *)
(* modelled by an operator that does to the tokens what the expression     *)
(* does to the characters.                                                 *)
(***************************************************************************)
EXTENDS Integers, Sequences, FiniteSets, TLC

VARIABLES
    \* ---- sentiment_analyzer.py ----
    analyzer,       \* the SentimentAnalyzer instance (exists, batch_size)
    ctor,           \* the last call of SentimentAnalyzer.__init__ and its outcome
    comments,       \* the comments argument of analyze_all
    pc,             \* position of analyze_all: idle, loop, returned, raised
    i,              \* loop variable of analyze_all (0-based offset)
    all_results,    \* local all_results of analyze_all
    calls,          \* the batches handed to ollama.generate, in call order
    batch_results,  \* what analyze_batch returned, per call
    last_response,  \* response['response'] of the last ollama.generate call
    error,          \* the exception that left analyze_all, if any
    \* ---- vector_store.py ----
    existing,       \* names of the collections that exist in Qdrant
    vectors_config, \* per existing collection, its vector size and distance
    store_call,     \* the last call of a VectorStore method and what it gave
    coll_comments,  \* points of the comments collection
    coll_personas,  \* points of the personas collection
    now,            \* the clock read by datetime.now()
    store_outcome,  \* how the last VectorStore call ended
    ids_used,       \* every (collection, natural key, id) handed to upsert
    stored_comments, \* per permalink, the payload of its latest store_comment
    stored_personas, \* per username, the payload of its latest store_persona
    \* ---- reddit_client.py, markdown_parser.py ----
    user_comments,  \* the comments argument of save_comments_to_markdown
    markdown_file,  \* the comment file <username>.md: its lines, who wrote it
    parse_result,   \* what parse_comments_file returned, or that it raised
    codec_pc,       \* start, written, parsed
    persona_file,   \* the persona file <username>_persona.md: its lines
    persona_result, \* what parse_persona_file returned
    \* ---- cli.py ----
    cli_command,    \* the loop that runs: fetch, personas, embed (two loops)
    cli_items,      \* the usernames or files the loop goes through
    cli_pc,         \* idle, loop, done, raised
    cli_i,          \* the item the loop is at (1-based)
    cli_step,       \* the call of the loop body that comes next
    cli_log,        \* per item the loop has left: what was printed for it
    \* ---- cli.py: parse_usernames ----
    userfile,       \* the lines of the file given to parse_usernames
    usernames,      \* what parse_usernames returned
    \* ---- reddit_client.py: _parse_submission_id and its callers ----
    post_url,       \* the URL given to get_submission or get_top_level_comments
    url_call,       \* the last call, how it ended, the Reddit API calls it issued
    \* ---- cli.py: interest ----
    fetched,        \* the top-level comments of the post, as Reddit gave them
    options,        \* the options of the interest command
    interest_pc,    \* start, analyze, done, failed, raised
    output_file,    \* the file of usernames the interest command writes
    \* ---- cli.py: fetch, run after run ----
    out_dir,        \* per username, the comment file <username>.md of the output directory
    fetch_run,      \* the run of fetch under way: its list, its position, what failed
    \* ---- cli.py: embed, run after run over one input directory ----
    in_dir,         \* the names of the files of the input directory
    embed_run,      \* the run of embed under way: options, file lists, position
    embed_faults    \* how many more calls of a service may fail (transient failures)

sentVars == <<analyzer, ctor, comments, pc, i, all_results, calls,
              batch_results, last_response, error>>

storeVars == <<existing, vectors_config, store_call, coll_comments,
               coll_personas, now, store_outcome, ids_used, stored_comments,
               stored_personas>>

codecVars == <<user_comments, markdown_file, parse_result, codec_pc>>

personaVars == <<persona_file, persona_result>>

cliVars == <<cli_command, cli_items, cli_pc, cli_i, cli_step, cli_log>>

namesVars == <<userfile, usernames>>

urlVars == <<post_url, url_call>>

interestVars == <<fetched, options, interest_pc, output_file>>

fetchVars == <<out_dir, fetch_run>>

embedVars == <<in_dir, embed_run, embed_faults>>

vars == <<sentVars, storeVars, codecVars, personaVars, cliVars, namesVars,
          urlVars, interestVars, fetchVars, embedVars>>

notSentVars == <<storeVars, codecVars, personaVars, cliVars, namesVars,
                 urlVars, interestVars, fetchVars, embedVars>>

notStoreVars == <<sentVars, codecVars, personaVars, cliVars, namesVars,
                  urlVars, interestVars, fetchVars, embedVars>>

notCodecVars == <<sentVars, storeVars, personaVars, cliVars, namesVars,
                  urlVars, interestVars, fetchVars, embedVars>>

notPersonaVars == <<sentVars, storeVars, codecVars, cliVars, namesVars,
                    urlVars, interestVars, fetchVars, embedVars>>

notCliVars == <<sentVars, storeVars, codecVars, personaVars, namesVars,
                urlVars, interestVars, fetchVars, embedVars>>

notNamesVars == <<sentVars, storeVars, codecVars, personaVars, cliVars,
                  urlVars, interestVars, fetchVars, embedVars>>

notUrlVars == <<sentVars, storeVars, codecVars, personaVars, cliVars,
                namesVars, interestVars, fetchVars, embedVars>>

notInterestVars == <<sentVars, storeVars, codecVars, personaVars, cliVars,
                     namesVars, urlVars, fetchVars, embedVars>>

notFetchVars == <<sentVars, storeVars, codecVars, personaVars, cliVars,
                  namesVars, urlVars, interestVars, embedVars>>

notEmbedVars == <<sentVars, storeVars, codecVars, personaVars, cliVars,
                  namesVars, urlVars, interestVars, fetchVars>>

----------------------------------------------------------------------------
(* Bounds of the model *)

MaxComments == 3
MaxStores == 2
MaxFetched == 3
MaxParts == 3
MaxPersonaLines == 3
MaxUsers == 3
MaxUserLines == 4
MaxUrlPieces == 4
MaxThread == 2
MaxRuns == 2
MaxFaults == 2

(* Program constants *)

MinBatchSize == 1
MaxBatchSize == 100
VectorSize == 768

----------------------------------------------------------------------------
(* Helpers *)

Min(a, b) == IF a < b THEN a ELSE b

MaxOf(S) == CHOOSE x \in S : \A y \in S : y <= x

MinOf(S) == CHOOSE x \in S : \A y \in S : x <= y

SeqsUpTo(S, n) == UNION {[1..k -> S] : k \in 0..n}

Range(s) == {s[k] : k \in 1..Len(s)}

RECURSIVE Concat(_)
Concat(ss) == IF ss = <<>> THEN <<>> ELSE Head(ss) \o Concat(Tail(ss))

----------------------------------------------------------------------------
(* vector_store.py: identifiers *)

CommentsCollection == "reddit_comments"

PersonasCollection == "user_personas"

Permalinks == {"https://reddit.com/r/a/comments/p1/t/c1/",
               "https://reddit.com/r/a/comments/p1/t/c2/"}

Usernames == {"alice", "bob"}

\* str(uuid.UUID(bytes=hashlib.md5(key.encode()).digest())): the values MD5
\* gives for the keys of the model
Md5Uuid(key) ==
    CASE key = "https://reddit.com/r/a/comments/p1/t/c1/" ->
             "c408621f-026f-6450-7c50-7fa893a24aed"
      [] key = "https://reddit.com/r/a/comments/p1/t/c2/" ->
             "be15581a-5533-ec78-f9f4-f42bf9133042"
      [] key = "alice" -> "6384e2b2-184b-cbf5-8ecc-f10ca7a6563c"
      [] key = "bob" -> "9f9d51bc-70ef-21ca-5c14-f307980a29d8"
      [] key = "alice-x" -> "c406dbdb-855b-9cb5-d7c3-e0d428df451f"
      [] key = "alice_persona" -> "b1d54e06-8514-f169-f7fa-63a8d98a1c6d"
      [] key = "" -> "d41d8cd9-8f00-b204-e980-0998ecf8427e"

\* VectorStore._permalink_to_uuid
PermalinkToUuid(permalink) == Md5Uuid(permalink)

\* VectorStore._username_to_uuid
UsernameToUuid(username) == Md5Uuid(username)

----------------------------------------------------------------------------
(* vector_store.py: store_comment and store_persona *)

SecondsPerDay == 86400

\* the offset of local time from UTC, in seconds
UtcOffset == 3600

\* datetime.fromtimestamp(ts).strftime("%Y-%m-%d"): the local calendar day,
\* as the number of the day
LocalDate(ts) == (ts + UtcOffset) \div SecondsPerDay

\* ollama.embed(model, input=text)["embeddings"][0]
EmbedText(text) == [embedding_of |-> text]

StoreInputComments ==
    [body : {"b1", "b2"}, score : {24}, subreddit : {"productivity"},
     created_utc : {1700000000}, permalink : Permalinks]

CommentPointKeyedByUser(comment, username) ==
    [id |-> UsernameToUuid(username),
     vector |-> EmbedText(comment.body),
     payload |-> [text |-> comment.body, username |-> username,
                  subreddit |-> comment.subreddit, score |-> comment.score,
                  permalink |-> comment.permalink,
                  created_date |-> LocalDate(comment.created_utc)]]

\* the point with an id drawn anew at every call
CommentPointFreshId(comment, username) ==
    [id |-> [drawn |-> Cardinality(coll_comments) + 1],
     vector |-> EmbedText(comment.body),
     payload |-> [text |-> comment.body, username |-> username,
                  subreddit |-> comment.subreddit, score |-> comment.score,
                  permalink |-> comment.permalink,
                  created_date |-> LocalDate(comment.created_utc)]]

\* the PointStruct that store_comment builds
CommentPoint(comment, username) ==
    [id |-> PermalinkToUuid(comment.permalink),
     vector |-> EmbedText(comment.body),
     payload |-> [text |-> comment.body, username |-> username,
                  subreddit |-> comment.subreddit, score |-> comment.score,
                  permalink |-> comment.permalink,
                  created_date |-> LocalDate(comment.created_utc)]]

\* the PointStruct that store_persona builds
PersonaPoint(username, persona_text, archetype, top_subreddits, comment_count, clock) ==
    [id |-> UsernameToUuid(username),
     vector |-> EmbedText(persona_text),
     payload |-> [username |-> username, persona_text |-> persona_text,
                  archetype |-> archetype, top_subreddits |-> top_subreddits,
                  comment_count |-> comment_count, embedded_at |-> clock]]

UpsertKeepingFirst(points, point) ==
    IF \E q \in points : q.id = point.id THEN points ELSE points \cup {point}

\* QdrantClient.upsert: the point replaces the point of the same id, if any
Upsert(points, point) == {q \in points : q.id # point.id} \cup {point}

\* the latest payload per natural key
Remember(latest, key, payload) ==
    {e \in latest : e.key # key} \cup {[key |-> key, payload |-> payload]}

\* what Qdrant holds: the collections, their configurations, their points
Backend ==
    [existing |-> existing, vectors_config |-> vectors_config,
     comments |-> coll_comments, personas |-> coll_personas]

NoCall == [op |-> "none", raised |-> FALSE]

\* models.VectorParams(size=self.vector_size, distance=models.Distance.COSINE)
VectorParams == [size |-> VectorSize, distance |-> "Cosine"]

\* the loop body without the existence check: the collection is made anew
InitStepRecreating(st, name) ==
    [existing |-> st.existing \cup {name},
     vectors_config |-> [n \in st.existing \cup {name} |->
                           IF n = name THEN VectorParams
                           ELSE st.vectors_config[n]],
     comments |-> IF name = CommentsCollection THEN {} ELSE st.comments,
     personas |-> IF name = PersonasCollection THEN {} ELSE st.personas,
     created |-> Append(st.created, [collection_name |-> name,
                                     vectors_config |-> VectorParams])]

\* one turn of the loop of initialize_collections (lines 77-85)
InitStep(st, name) ==
    IF name \in st.existing THEN st
    ELSE [existing |-> st.existing \cup {name},
          vectors_config |-> [n \in st.existing \cup {name} |->
                                IF n = name THEN VectorParams
                                ELSE st.vectors_config[n]],
          comments |-> st.comments,
          personas |-> st.personas,
          created |-> Append(st.created, [collection_name |-> name,
                                          vectors_config |-> VectorParams])]

\* the loop after its first turns many turns
RECURSIVE InitLoop(_, _)
InitLoop(st, turns) ==
    IF turns = 0 THEN st
    ELSE InitStep(InitLoop(st, turns - 1),
                  <<CommentsCollection, PersonasCollection>>[turns])

\* the backend after the first turns many turns of the loop, and the call
InitializeCollectionsUpTo(turns, raised) ==
    LET st == InitLoop([existing |-> existing, vectors_config |-> vectors_config,
                        comments |-> coll_comments, personas |-> coll_personas,
                        created |-> <<>>], turns)
    IN /\ existing' = st.existing
       /\ vectors_config' = st.vectors_config
       /\ coll_comments' = st.comments
       /\ coll_personas' = st.personas
       /\ store_call' = [op |-> "initialize_collections", raised |-> raised,
                         created |-> st.created, before |-> Backend]

\* VectorStore.initialize_collections
InitializeCollections ==
    /\ InitializeCollectionsUpTo(2, FALSE)
    /\ store_outcome' = "ok"
    /\ UNCHANGED <<now, ids_used, stored_comments, stored_personas>>
    /\ UNCHANGED notStoreVars

\* initialize_collections raises: collection_exists or create_collection
\* fails in the first or in the second turn of the loop
InitializeCollectionsRaises ==
    /\ \E turns \in {0, 1} : InitializeCollectionsUpTo(turns, TRUE)
    /\ store_outcome' = "raised"
    /\ UNCHANGED <<now, ids_used, stored_comments, stored_personas>>
    /\ UNCHANGED notStoreVars

\* VectorStore.store_comment, the embedding and the upsert succeeding
StoreComment(comment, username) ==
    /\ now < MaxStores
    /\ CommentsCollection \in existing
    /\ LET point == CommentPoint(comment, username)
       IN /\ coll_comments' = Upsert(coll_comments, point)
          /\ ids_used' = ids_used \cup
                {[collection |-> CommentsCollection, key |-> comment.permalink,
                  id |-> point.id]}
          /\ stored_comments' =
                Remember(stored_comments, comment.permalink, point.payload)
    /\ now' = now + 1
    /\ store_outcome' = "ok"
    /\ store_call' = [op |-> "store_comment", raised |-> FALSE]
    /\ UNCHANGED <<existing, vectors_config, coll_personas, stored_personas>>
    /\ UNCHANGED notStoreVars

\* VectorStore.store_persona, the embedding and the upsert succeeding
StorePersona(username, persona_text, archetype, top_subreddits, comment_count) ==
    /\ now < MaxStores
    /\ PersonasCollection \in existing
    /\ LET point == PersonaPoint(username, persona_text, archetype,
                                 top_subreddits, comment_count, now)
       IN /\ coll_personas' = Upsert(coll_personas, point)
          /\ ids_used' = ids_used \cup
                {[collection |-> PersonasCollection, key |-> username,
                  id |-> point.id]}
          /\ stored_personas' = Remember(stored_personas, username, point.payload)
    /\ now' = now + 1
    /\ store_outcome' = "ok"
    /\ store_call' = [op |-> "store_persona", raised |-> FALSE]
    /\ UNCHANGED <<existing, vectors_config, coll_comments, stored_comments>>
    /\ UNCHANGED notStoreVars

\* store_comment or store_persona raises: ollama.embed or the upsert fails
\* (the service is down, the collection does not exist); nothing is written
StoreRaises ==
    /\ store_outcome' = "raised"
    /\ \E op \in {"store_comment", "store_persona"} :
          store_call' = [op |-> op, raised |-> TRUE]
    /\ UNCHANGED <<existing, vectors_config, coll_comments, coll_personas, now,
                   ids_used, stored_comments, stored_personas>>
    /\ UNCHANGED notStoreVars

----------------------------------------------------------------------------
(* vector_store.py: user_has_comments and user_has_persona *)

\* client.scroll(collection, scroll_filter=username, limit): the pages the
\* backend may answer with, each a set of at most limit matching points
Scroll(points, username, limit) ==
    LET matching == {pt \in points : pt.payload.username = username}
    IN {page \in SUBSET matching :
           Cardinality(page) = Min(limit, Cardinality(matching))}

\* client.retrieve(collection, ids): the points that have one of the ids
Retrieve(points, ids) == {pt \in points : pt.id \in ids}

\* the probe without its try: the backend error leaves the method
ProbeUncaught(op, username) ==
    [op |-> op, username |-> username, backend |-> "error",
     raised |-> TRUE, result |-> FALSE, before |-> Backend]

\* except Exception: return False (lines 217-218 and 236-237)
ProbeCaught(op, username) ==
    [op |-> op, username |-> username, backend |-> "error",
     raised |-> FALSE, result |-> FALSE, before |-> Backend]

\* return len(...) > 0 (lines 216 and 235)
ProbeReturned(op, username, found) ==
    [op |-> op, username |-> username, backend |-> "ok",
     raised |-> FALSE, result |-> Cardinality(found) > 0, before |-> Backend]

\* VectorStore.user_has_comments: the scroll answers when the collection
\* exists and the backend is up, and raises otherwise
UserHasComments(username) ==
    /\ \/ /\ CommentsCollection \in existing
          /\ \E page \in Scroll(coll_comments, username, 1) :
                store_call' = ProbeReturned("user_has_comments", username, page)
       \/ store_call' = ProbeCaught("user_has_comments", username)
    /\ store_outcome' = "ok"
    /\ UNCHANGED <<existing, vectors_config, coll_comments, coll_personas, now,
                   ids_used, stored_comments, stored_personas>>
    /\ UNCHANGED notStoreVars

\* VectorStore.user_has_persona
UserHasPersona(username) ==
    /\ \/ /\ PersonasCollection \in existing
          /\ store_call' =
                ProbeReturned("user_has_persona", username,
                              Retrieve(coll_personas, {UsernameToUuid(username)}))
       \/ store_call' = ProbeCaught("user_has_persona", username)
    /\ store_outcome' = "ok"
    /\ UNCHANGED <<existing, vectors_config, coll_comments, coll_personas, now,
                   ids_used, stored_comments, stored_personas>>
    /\ UNCHANGED notStoreVars

----------------------------------------------------------------------------
(* vector_store.py: search_similar *)

\* the cosine similarity of two embeddings, in hundredths
Cosine(v, w) == IF v = w THEN 100 ELSE 37

\* client.query_points(collection, query, limit, with_payload=True).points:
\* the answers the backend may give, each a sequence of the limit nearest
\* points with their similarity, nearest first
QueryPoints(points, query_vector, limit) ==
    LET n == Min(limit, Cardinality(points))
        Scored(pt) == [id |-> pt.id, score |-> Cosine(query_vector, pt.vector),
                       payload |-> pt.payload]
    IN {[k \in 1..n |-> Scored(order[k])] :
           order \in {o \in [1..n -> points] :
                         /\ \A a \in 1..n, b \in 1..n : a < b => o[a] # o[b]
                         /\ \A a \in 1..n, b \in 1..n : a < b =>
                               Cosine(query_vector, o[a].vector)
                                  >= Cosine(query_vector, o[b].vector)
                         /\ \A pt \in points \ Range(o) : \A a \in 1..n :
                               Cosine(query_vector, o[a].vector)
                                  >= Cosine(query_vector, pt.vector)}}

\* {**a, **b}: the keys of both, b's value where both have the key
DictMerge(a, b) ==
    [key \in DOMAIN a \cup DOMAIN b |->
        IF key \in DOMAIN b THEN b[key] ELSE a[key]]

\* the result with the similarity under the key "score"
FormatResultScoreKey(point) ==
    DictMerge([id |-> point.id, score |-> point.score], point.payload)

\* one formatted result (lines 277-281)
FormatResult(point) ==
    DictMerge([id |-> point.id, similarity |-> point.score], point.payload)

SearchCall(query, collection, limit) ==
    [op |-> "search_similar", query |-> query, collection |-> collection,
     limit |-> limit]

\* VectorStore.search_similar returning
SearchSimilar(query, collection, limit) ==
    /\ collection \in {"comments", "personas"}
    /\ LET collection_name == IF collection = "comments"
                              THEN CommentsCollection ELSE PersonasCollection
           points == IF collection = "comments"
                     THEN coll_comments ELSE coll_personas
       IN /\ collection_name \in existing
          /\ \E response \in QueryPoints(points, EmbedText(query), limit) :
                store_call' =
                   DictMerge(SearchCall(query, collection, limit),
                             [raised |-> FALSE, response |-> response,
                              results |-> [k \in 1..Len(response) |->
                                              FormatResult(response[k])]])
    /\ store_outcome' = "ok"
    /\ UNCHANGED <<existing, vectors_config, coll_comments, coll_personas, now,
                   ids_used, stored_comments, stored_personas>>
    /\ UNCHANGED notStoreVars

\* search_similar raises: ollama.embed fails, the collection argument is
\* neither "comments" nor "personas" (ValueError), or query_points fails
SearchSimilarRaises(query, collection, limit) ==
    /\ store_call' = DictMerge(SearchCall(query, collection, limit),
                               [raised |-> TRUE])
    /\ store_outcome' = "raised"
    /\ UNCHANGED <<existing, vectors_config, coll_comments, coll_personas, now,
                   ids_used, stored_comments, stored_personas>>
    /\ UNCHANGED notStoreVars

StoreIdle ==
    /\ existing = {}
    /\ vectors_config = <<>>
    /\ store_call = NoCall
    /\ coll_comments = {}
    /\ coll_personas = {}
    /\ now = 0
    /\ store_outcome = "none"
    /\ ids_used = {}
    /\ stored_comments = {}
    /\ stored_personas = {}

----------------------------------------------------------------------------
(* Markdown comment files: a sequence of lines, each ended by a newline.   *)
(* A text (a comment body) is a non-empty sequence of lines joined by      *)
(* newlines; the empty text is the one empty line.                         *)

Line(kind, text, num) == [k |-> kind, s |-> text, n |-> num]

\* the empty line
Blank == Line("blank", "", 0)

\* the line ---
Rule == Line("rule", "", 0)

\* a line of ordinary text
TextLine(text) == Line("text", text, 0)

\* # Reddit Comments Analysis: u/<username>
TitleLine(username) == Line("title", username, 0)

\* **Generated:** <now>
GeneratedLine == Line("generated", "", 0)

\* **Total Comments:** <n>
TotalLine(n) == Line("total", "", n)

\* ## r/<subreddit> (<n> comments)
SubredditLine(subreddit, n) == Line("subreddit", subreddit, n)

\* ### Comment (Score: <score>)
HeadingLine(score) == Line("heading", "", score)

\* **Date:** YYYY-MM-DD, the date given as the number of its day
DateLine(day) == Line("date", "", day)

\* **Link:** [View on Reddit](<permalink>)
LinkLine(permalink) == Line("link", permalink, 0)

\* a line that starts with --- and goes on: ----
DashesLine == Line("dashes", "", 0)

\* a line of text that holds the header text after other text:
\* see ## r/<subreddit> (its FAQ)
InlineSubredditLine(subreddit) == Line("inline_subreddit", subreddit, 0)

\* what stands before the header text in that line, without the blank
InlinePrefix == TextLine("see")

\* lines that miss the grammar
BadHeadingLine == Line("heading_bad", "", 0)     \* ### Comment (Score: n/a)

BadDateLine == Line("date_bad", "", 0)           \* **Date:** yesterday

ImpossibleDateLine == Line("date_invalid", "", 0) \* **Date:** 2023-13-45

BadLinkLine == Line("link_bad", "", 0)           \* **Link:** none

----------------------------------------------------------------------------
(* reddit_client.py: RedditClient.save_comments_to_markdown *)

\* the keys of subreddit_groups, in insertion order
RECURSIVE SubredditOrder(_)
SubredditOrder(cs) ==
    IF cs = <<>> THEN <<>>
    ELSE LET before == SubredditOrder(SubSeq(cs, 1, Len(cs) - 1))
             subreddit == cs[Len(cs)].subreddit
         IN IF subreddit \in Range(before) THEN before
            ELSE Append(before, subreddit)

GroupOfOverwriting(cs, subreddit) ==
    LET g == SelectSeq(cs, LAMBDA c : c.subreddit = subreddit)
    IN IF g = <<>> THEN g ELSE <<g[Len(g)]>>

\* subreddit_groups[subreddit]
GroupOf(cs, subreddit) == SelectSeq(cs, LAMBDA c : c.subreddit = subreddit)

\* the four writes of one comment (lines 69-74); the body is written as it is
CommentBlock(c) ==
    <<HeadingLine(c.score), DateLine(LocalDate(c.created_utc)),
      LinkLine(c.permalink), Blank>>
    \o c.body \o <<Blank, Rule, Blank>>

SubredditSection(cs, subreddit) ==
    <<SubredditLine(subreddit, Len(GroupOf(cs, subreddit))), Blank>>
    \o Concat([k \in 1..Len(GroupOf(cs, subreddit)) |->
                  CommentBlock(GroupOf(cs, subreddit)[k])])

\* the lines save_comments_to_markdown writes
RenderMarkdown(cs, username) ==
    <<TitleLine(username), Blank, GeneratedLine, TotalLine(Len(cs)), Blank>>
    \o Concat([k \in 1..Len(SubredditOrder(cs)) |->
                  SubredditSection(cs, SubredditOrder(cs)[k])])

----------------------------------------------------------------------------
(* markdown_parser.py: parse_comments_file *)

\* re.split(r"(## r/\w+[^\n]*\n)", content): the lines that hold the header
\* text, at their start or, the expression having no anchor, further on
HeaderPositions(doc) ==
    {h \in 1..Len(doc) : doc[h].k \in {"subreddit", "inline_subreddit"}}

\* the section that follows the header at line h
SectionAfter(doc, h) ==
    LET later == {x \in HeaderPositions(doc) : x > h}
    IN SubSeq(doc, h + 1, IF later = {} THEN Len(doc) ELSE MinOf(later) - 1)

\* the end of the section that follows the header at line h, after its last
\* newline: empty, or the text before the header text of the next header
SectionTail(doc, h) ==
    LET later == {x \in HeaderPositions(doc) : x > h}
    IN IF later # {} /\ doc[MinOf(later)].k = "inline_subreddit"
       THEN InlinePrefix ELSE Blank

\* comment_pattern up to the body: heading, date and link lines that match,
\* then the empty line
MatchesAt(sec, h) ==
    /\ h + 3 <= Len(sec)
    /\ sec[h].k = "heading"
    /\ sec[h + 1].k \in {"date", "date_invalid"}
    /\ sec[h + 2].k = "link"
    /\ sec[h + 3] = Blank

\* (?=\n---|\Z): the lines starting with --- that end the body which starts
\* at line h + 4; the newline before them has to be part of the body
Terminators(sec, h) ==
    {t \in (h + 5)..Len(sec) : sec[t].k \in {"rule", "dashes"}}

\* group 4 of comment_pattern, lazily up to the first terminator or the end
RawBody(sec, h, tail) ==
    IF Terminators(sec, h) = {}
    THEN SubSeq(sec, h + 4, Len(sec)) \o <<tail>>
    ELSE SubSeq(sec, h + 4, MinOf(Terminators(sec, h)) - 1)

\* where finditer looks for the next match
NextSearch(sec, h) ==
    IF Terminators(sec, h) = {} THEN Len(sec) + 1
    ELSE MinOf(Terminators(sec, h))

RECURSIVE DropLeadingBlank(_)
DropLeadingBlank(b) ==
    IF b # <<>> /\ Head(b) = Blank THEN DropLeadingBlank(Tail(b)) ELSE b

RECURSIVE DropTrailingBlank(_)
DropTrailingBlank(b) ==
    IF b # <<>> /\ b[Len(b)] = Blank
    THEN DropTrailingBlank(SubSeq(b, 1, Len(b) - 1)) ELSE b

\* match.group(4).strip()
StripBody(b) ==
    LET r == DropTrailingBlank(DropLeadingBlank(b))
    IN IF r = <<>> THEN <<Blank>> ELSE r

\* int(datetime.strptime(date_str, "%Y-%m-%d").timestamp()): local midnight
LocalMidnight(day) == day * SecondsPerDay - UtcOffset

\* the dictionary appended for the match at line h (lines 56-71)
ParsedComment(sec, h, subreddit, tail) ==
    [body |-> StripBody(RawBody(sec, h, tail)),
     score |-> sec[h].n,
     subreddit |-> subreddit,
     created_utc |-> LocalMidnight(sec[h + 1].n),
     permalink |-> sec[h + 2].s]

ParseOk(cs) == [raised |-> FALSE, comments |-> cs]

\* datetime.strptime raises ValueError
ParseRaised == [raised |-> TRUE, comments |-> <<>>]

\* for match in comment_pattern.finditer(section), from line pos on
RECURSIVE ParseSection(_, _, _, _)
ParseSection(sec, pos, subreddit, tail) ==
    LET starts == {h \in pos..Len(sec) : MatchesAt(sec, h)}
    IN IF starts = {} THEN ParseOk(<<>>)
       ELSE LET h == MinOf(starts)
            IN IF sec[h + 1].k = "date_invalid" THEN ParseRaised
               ELSE LET rest == ParseSection(sec, NextSearch(sec, h),
                                                subreddit, tail)
                    IN IF rest.raised THEN ParseRaised
                       ELSE ParseOk(<<ParsedComment(sec, h, subreddit, tail)>>
                                    \o rest.comments)

\* for i, section in enumerate(sections), over the headers hs still to come;
\* the text before the first header has no current_subreddit and is skipped
RECURSIVE ParseSections(_, _)
ParseSections(doc, hs) ==
    IF hs = {} THEN ParseOk(<<>>)
    ELSE LET h == MinOf(hs)
             first == ParseSection(SectionAfter(doc, h), 1, doc[h].s,
                                  SectionTail(doc, h))
         IN IF first.raised THEN ParseRaised
            ELSE LET rest == ParseSections(doc, hs \ {h})
                 IN IF rest.raised THEN ParseRaised
                    ELSE ParseOk(first.comments \o rest.comments)

\* parse_comments_file
ParseCommentsFile(doc) == ParseSections(doc, HeaderPositions(doc))

----------------------------------------------------------------------------
(* The comment codec: inputs and steps *)

NoFile == [exists |-> FALSE, lines |-> <<>>, by |-> "nobody"]

NoParse == [called |-> FALSE, raised |-> FALSE, comments |-> <<>>]

CodecBodies ==
    { <<TextLine("x")>>,
      <<TextLine("x"), Blank, TextLine("y")>>,
      <<TextLine("x"), Rule, TextLine("y")>>,
      <<Rule, TextLine("x")>> }

CodecComment(body, profile) ==
    CASE profile = 1 ->
            [body |-> body, score |-> 24, subreddit |-> "productivity",
             created_utc |-> 1700000000,
             permalink |-> "https://reddit.com/r/a/comments/p1/t/c1/"]
      [] profile = 2 ->
            [body |-> body, score |-> -3, subreddit |-> "remotework",
             created_utc |-> 1700003000,
             permalink |-> "https://reddit.com/r/a/comments/p1/t/c2/"]

CodecComments == {CodecComment(b, p) : b \in CodecBodies, p \in {1, 2}}

CodecCommentLists == SeqsUpTo(CodecComments, MaxFetched)

\* the parts a document that somebody else wrote is made of
GoodBlock ==
    <<HeadingLine(7), DateLine(19600), LinkLine("https://reddit.com/x"), Blank,
      TextLine("z"), Blank, Rule, Blank>>

DocumentParts ==
    { <<SubredditLine("productivity", 1), Blank>>,
      GoodBlock,
      [GoodBlock EXCEPT ![1] = BadHeadingLine],
      [GoodBlock EXCEPT ![2] = BadDateLine],
      [GoodBlock EXCEPT ![2] = ImpossibleDateLine],
      [GoodBlock EXCEPT ![3] = BadLinkLine],
      [GoodBlock EXCEPT ![4] = TextLine("z")],
      SubSeq(GoodBlock, 1, 6),
      <<SubredditLine("remotework", 1), Blank>>,
      [GoodBlock EXCEPT ![5] = InlineSubredditLine("remotework")],
      SubSeq(GoodBlock, 1, 5) \o <<DashesLine>> \o SubSeq(GoodBlock, 5, 8),
      SubSeq(GoodBlock, 1, 4) \o <<Rule>> \o SubSeq(GoodBlock, 5, 8) }

Documents == {Concat(parts) : parts \in SeqsUpTo(DocumentParts, MaxParts)}

\* RedditClient.save_comments_to_markdown
SaveCommentsToMarkdown ==
    /\ codec_pc = "start"
    /\ markdown_file' = [exists |-> TRUE,
                         lines |-> RenderMarkdown(user_comments, "TestUser"),
                         by |-> "save_comments_to_markdown"]
    /\ codec_pc' = "written"
    /\ UNCHANGED <<user_comments, parse_result>>
    /\ UNCHANGED notCodecVars

\* parse_comments_file(file_path)
ParseCommentsFileCall ==
    /\ codec_pc = "written"
    /\ markdown_file.exists
    /\ LET r == ParseCommentsFile(markdown_file.lines)
       IN parse_result' = [called |-> TRUE, raised |-> r.raised,
                           comments |-> r.comments]
    /\ codec_pc' = "parsed"
    /\ UNCHANGED <<user_comments, markdown_file>>
    /\ UNCHANGED notCodecVars

CodecIdle ==
    /\ user_comments = <<>>
    /\ markdown_file = NoFile
    /\ parse_result = NoParse
    /\ codec_pc = "start"

----------------------------------------------------------------------------
(* markdown_parser.py: parse_persona_file.  A persona document is a        *)
(* sequence of lines; a line is given by what the three expressions of     *)
(* parse_persona_file can find in it: the header text and its name (u), a  *)
(* bold phrase followed by a dash (a), the communities label (label), and  *)
(* the r/<name> tokens of the line (subs: those after the label, in a line *)
(* that has the label).                                                    *)

PersonaLine(kind, u, a, label, subs) ==
    [k |-> kind, u |-> u, a |-> a, label |-> label, subs |-> subs]

\* the empty line
PBlank == PersonaLine("blank", "", "", FALSE, <<>>)

\* # User Persona: u/<name>
PTitle(name) == PersonaLine("title", name, "", FALSE, <<>>)

\* Draft of # User Persona: u/<name> (the header text within a line)
PTitleInline(name) == PersonaLine("title_inline", name, "", FALSE, <<>>)

\* # User Persona: <name> (no u/: the expression finds nothing)
PTitleBad == PersonaLine("title_bad", "", "", FALSE, <<>>)

\* **<Archetype>** <en-dash> <description>
PArchetype(a) == PersonaLine("archetype", "", a, FALSE, <<>>)

\* **<Archetype>** - <description>
PArchetypeHyphen(a) == PersonaLine("archetype_hyphen", "", a, FALSE, <<>>)

\* **<Archetype>**: <description> (no dash: the expression finds nothing)
PArchetypeBad == PersonaLine("archetype_bad", "", "", FALSE, <<>>)

\* **Most Active Communities:** r/<a>, r/<b>
PCommunities(subs) == PersonaLine("communities", "", "", TRUE, subs)

\* **Most Active Communities:** with nothing after it on its line
PCommunitiesAlone == PersonaLine("communities_alone", "", "", TRUE, <<>>)

\* Most Active Communities: r/<a> (no bold label: the expression finds nothing)
PCommunitiesBad(subs) == PersonaLine("communities_bad", "", "", FALSE, subs)

\* a line of text that names subreddits: - r/<a> and r/<b>
PText(subs) == PersonaLine("text", "", "", FALSE, subs)

\* re.search(r"# User Persona: u/(\w+)", content): group 1 of the first match
PersonaUsername(doc) ==
    LET found == {x \in 1..Len(doc) : doc[x].u # ""}
    IN IF found = {} THEN "" ELSE doc[MinOf(found)].u

\* re.search(r"\*\*([^*]+)\*\* [en-dash or hyphen] ", content)
PersonaArchetype(doc) ==
    LET found == {x \in 1..Len(doc) : doc[x].a # ""}
    IN IF found = {} THEN "" ELSE doc[MinOf(found)].a

\* group 1 of \*\*Most Active Communities:\*\*\s*([^\n]+): the rest of the
\* line of the first label or, \s* running over newlines, the next line
\* that is not empty; no match when only empty lines follow
PersonaSubredditsLine(doc) ==
    LET labels == {x \in 1..Len(doc) : doc[x].label}
    IN IF labels = {} THEN 0
       ELSE LET at == MinOf(labels)
                later == {x \in (at + 1)..Len(doc) : doc[x] # PBlank}
            IN IF doc[at].k # "communities_alone" THEN at
               ELSE IF later = {} THEN 0 ELSE MinOf(later)

\* re.findall(r"r/(\w+)", subreddits_text) over every line of the text
PersonaTopSubredditsOfWholeText(doc) ==
    Concat([x \in 1..Len(doc) |-> doc[x].subs])

\* re.findall(r"r/(\w+)", subreddits_text), or [] without match
PersonaTopSubreddits(doc) ==
    IF PersonaSubredditsLine(doc) = 0 THEN <<>>
    ELSE doc[PersonaSubredditsLine(doc)].subs

\* parse_persona_file
ParsePersonaFile(doc) ==
    [username |-> PersonaUsername(doc),
     archetype |-> PersonaArchetype(doc),
     top_subreddits |-> PersonaTopSubreddits(doc),
     persona_text |-> doc]

PersonaLines ==
    {PBlank, PTitle("alice"), PTitleInline("bob"), PTitleBad,
     PArchetype("The Sage"), PArchetypeHyphen("The Hero"), PArchetypeBad,
     PCommunities(<<"python", "rust">>), PCommunities(<<>>), PCommunitiesAlone,
     PCommunitiesBad(<<"golang">>), PText(<<"golang">>), PText(<<>>)}

PersonaDocuments == SeqsUpTo(PersonaLines, MaxPersonaLines)

NoPersonaResult == [called |-> FALSE, record |-> <<>>]

\* parse_persona_file(file_path): nothing in it raises on a text that was read
ParsePersonaFileCall ==
    /\ ~ persona_result.called
    /\ persona_result' = [called |-> TRUE,
                          record |-> ParsePersonaFile(persona_file)]
    /\ UNCHANGED persona_file
    /\ UNCHANGED notPersonaVars

PersonaIdle ==
    /\ persona_file = <<>>
    /\ persona_result = NoPersonaResult

----------------------------------------------------------------------------
(* cli.py: the loops of fetch, personas and embed over users or files.     *)
(* The body of each loop is a try block of calls that may raise; the       *)
(* except clause prints the failure with the name of the user or file.     *)

\* the calls of the try block of each loop, in order
CliSteps(command) ==
    CASE command = "fetch" ->
            <<"get_user_comments", "save_comments_to_markdown">>
      [] command = "personas" -> <<"generate_persona", "write_persona_file">>
      [] command = "embed_comments" -> <<"parse_comments_file", "store_comment">>
      [] command = "embed_personas" ->
            <<"parse_persona_file", "parse_comments_file", "store_persona">>

CliCommands == {"fetch", "personas", "embed_comments", "embed_personas"}

CliItemLists == SeqsUpTo(Usernames, MaxUsers)

\* progress.advance(task) and the next turn of the for loop, or its end
CliAdvance(index) ==
    IF index < Len(cli_items) THEN [pc |-> "loop", i |-> index + 1]
    ELSE [pc |-> "done", i |-> index + 1]

\* the loop without except clause: the exception leaves the command
CliExceptionPropagates(index) == [pc |-> "raised", i |-> index]

\* except Exception as e: console.print(...), then the loop goes on
CliOnException(index) == CliAdvance(index)

\* the command reaches its loop; without items it returns before
CliLoopStart(command, items) ==
    /\ cli_pc = "idle"
    /\ cli_command' = command
    /\ cli_items' = items
    /\ cli_pc' = IF items = <<>> THEN "done" ELSE "loop"
    /\ cli_i' = 1
    /\ cli_step' = 1
    /\ cli_log' = <<>>
    /\ UNCHANGED notCliVars

\* the next call of the try block returns; after the last one the success
\* line is printed and the loop advances
CliStepReturns ==
    /\ cli_pc = "loop"
    /\ IF cli_step < Len(CliSteps(cli_command))
       THEN /\ cli_step' = cli_step + 1
            /\ UNCHANGED <<cli_pc, cli_i, cli_log>>
       ELSE /\ cli_log' = Append(cli_log, [item |-> cli_items[cli_i],
                                           printed |-> "ok",
                                           calls |-> cli_step])
            /\ cli_pc' = CliAdvance(cli_i).pc
            /\ cli_i' = CliAdvance(cli_i).i
            /\ cli_step' = 1
    /\ UNCHANGED <<cli_command, cli_items>>
    /\ UNCHANGED notCliVars

\* the next call of the try block raises an Exception
CliStepRaises ==
    /\ cli_pc = "loop"
    /\ cli_log' = Append(cli_log, [item |-> cli_items[cli_i],
                                   printed |-> "failed",
                                   calls |-> cli_step])
    /\ cli_pc' = CliOnException(cli_i).pc
    /\ cli_i' = CliOnException(cli_i).i
    /\ cli_step' = 1
    /\ UNCHANGED <<cli_command, cli_items>>
    /\ UNCHANGED notCliVars

CliIdle ==
    /\ cli_command = "none"
    /\ cli_items = <<>>
    /\ cli_pc = "idle"
    /\ cli_i = 0
    /\ cli_step = 0
    /\ cli_log = <<>>

----------------------------------------------------------------------------
(* SentimentAnalyzer.__init__ *)

NoAnalyzer == [exists |-> FALSE, batch_size |-> 0]

NoCtor == [called |-> FALSE, batch_size |-> 0, outcome |-> "none"]

\* the configured values tried: around both ends of the accepted range
BatchSizes == (MinBatchSize - 2)..(MaxComments + 1)
              \cup (MaxBatchSize - 1)..(MaxBatchSize + 2)

BatchSizeRejectedOffByOne(bs) == ~ (MinBatchSize <= bs /\ bs <= MaxBatchSize + 1)

\* if not 1 <= self.batch_size <= 100: raise ValueError
BatchSizeRejected(bs) == ~ (MinBatchSize <= bs /\ bs <= MaxBatchSize)

Construct(bs) ==
    /\ pc = "idle"
    /\ ~ analyzer.exists
    /\ IF BatchSizeRejected(bs)
       THEN /\ ctor' = [called |-> TRUE, batch_size |-> bs, outcome |-> "ValueError"]
            /\ UNCHANGED analyzer
       ELSE /\ ctor' = [called |-> TRUE, batch_size |-> bs, outcome |-> "ok"]
            /\ analyzer' = [exists |-> TRUE, batch_size |-> bs]
    /\ UNCHANGED <<comments, pc, i, all_results, calls, batch_results,
                   last_response, error>>
    /\ UNCHANGED notSentVars

----------------------------------------------------------------------------
(* The text of an LLM response: a sequence of tokens *)

Tok(name) == [t |-> name, items |-> <<>>]

\* a JSON array of {id, author, score} objects, as one token
Json(items) == [t |-> "JSON_ARRAY", items |-> items]

IsSpace(tok) == tok.t \in {"NL", "SP"}

\* str.strip()
RECURSIVE LStrip(_)
LStrip(s) == IF s # <<>> /\ IsSpace(Head(s)) THEN LStrip(Tail(s)) ELSE s

RECURSIVE RStrip(_)
RStrip(s) == IF s # <<>> /\ IsSpace(s[Len(s)])
             THEN RStrip(SubSeq(s, 1, Len(s) - 1)) ELSE s

Strip(s) == RStrip(LStrip(s))

\* re.sub(r'<think>.*?</think>', '', cleaned, flags=re.DOTALL)
RECURSIVE RemoveThink(_)
RemoveThink(s) ==
    IF s = <<>> THEN <<>>
    ELSE LET closers == {j \in 2..Len(s) : s[j].t = "</think>"}
         IN IF Head(s).t = "<think>" /\ closers # {}
            THEN RemoveThink(SubSeq(s, MinOf(closers) + 1, Len(s)))
            ELSE <<Head(s)>> \o RemoveThink(Tail(s))

\* re.sub(r'^FENCE(?:json)?\n?', '', cleaned), FENCE being three backquotes
StripFenceOpen(s) ==
    IF s # <<>> /\ Head(s).t = "FENCE"
    THEN LET r1 == Tail(s)
             r2 == IF r1 # <<>> /\ Head(r1).t = "json" THEN Tail(r1) ELSE r1
         IN IF r2 # <<>> /\ Head(r2).t = "NL" THEN Tail(r2) ELSE r2
    ELSE s

\* re.sub(r'\n?FENCE$', '', cleaned): $ is the end, or just before a final newline
StripFenceClose(s) ==
    LET n == Len(s)
        DropNl(r) == IF r # <<>> /\ r[Len(r)].t = "NL"
                     THEN SubSeq(r, 1, Len(r) - 1) ELSE r
    IN IF n >= 1 /\ s[n].t = "FENCE" THEN DropNl(SubSeq(s, 1, n - 1))
       ELSE IF n >= 2 /\ s[n].t = "NL" /\ s[n - 1].t = "FENCE"
            THEN DropNl(SubSeq(s, 1, n - 2)) \o <<s[n]>>
            ELSE s

CleanResponseNoThink(response_text) ==
    LET c1 == Strip(response_text)
    IN IF c1 # <<>> /\ Head(c1).t = "FENCE"
       THEN StripFenceClose(StripFenceOpen(c1)) ELSE c1

\* _parse_response, lines 201-208
CleanResponse(response_text) ==
    LET c1 == Strip(response_text)
        c2 == Strip(RemoveThink(c1))
    IN IF c2 # <<>> /\ Head(c2).t = "FENCE"
       THEN StripFenceClose(StripFenceOpen(c2)) ELSE c2

\* json.loads accepts one JSON value with white space around it
JsonValid(cleaned) ==
    LET s == Strip(cleaned) IN Len(s) = 1 /\ s[1].t = "JSON_ARRAY"

JsonLoads(cleaned) == Strip(cleaned)[1].items

Unknown == "unknown"

\* id_to_author = {c['id']: c['author'] for c in comments}; .get(id, 'unknown')
IdToAuthor(batch, id) ==
    LET at == {k \in 1..Len(batch) : batch[k].id = id}
    IN IF at = {} THEN Unknown ELSE batch[MaxOf(at)].author

NoError == [type |-> "none", response |-> <<>>]

ResultOfTrustingResponse(item, batch) ==
    [comment_id |-> item.id, username |-> item.author, score |-> item.score]

\* SentimentResult(comment_id=item['id'], username=id_to_author.get(...), ...)
\* (rationale is copied from the item unchanged and is left out)
ResultOf(item, batch) ==
    [comment_id |-> item.id, username |-> IdToAuthor(batch, item.id),
     score |-> item.score]

ParseErrorWithCleanedText(response_text, cleaned) ==
    [type |-> "ValueError", response |-> cleaned]

\* raise ValueError(f"Failed to parse LLM response as JSON: {e}\nResponse: {response_text}")
ParseError(response_text, cleaned) ==
    [type |-> "ValueError", response |-> response_text]

\* SentimentAnalyzer._parse_response
ParseResponse(response_text, batch) ==
    LET cleaned == CleanResponse(response_text)
    IN IF JsonValid(cleaned)
       THEN [ok |-> TRUE,
             results |-> [k \in 1..Len(JsonLoads(cleaned)) |->
                             ResultOf(JsonLoads(cleaned)[k], batch)],
             error |-> NoError]
       ELSE [ok |-> FALSE, results |-> <<>>,
             error |-> ParseError(response_text, cleaned)]

----------------------------------------------------------------------------
(* What the model may answer: ollama.generate is an external service *)

Authors == {"alice", Unknown}

\* comment lists with distinct ids (Reddit comment ids are unique)
CommentLists ==
    UNION {{[k \in 1..n |-> [id |-> k, author |-> a[k]]] : a \in [1..n -> Authors]}
           : n \in 0..MaxComments}

\* an id that no request contains
UnknownId == MaxComments + 1

ScoreOf(id) == IF id % 2 = 1 THEN 8 ELSE -4

Item(id) == [id |-> id, author |-> "eve", score |-> ScoreOf(id)]

Faithful(batch) == [k \in 1..Len(batch) |-> Item(batch[k].id)]

LlmPayloads(batch) ==
    { Faithful(batch),
      SubSeq(Faithful(batch), 1, Len(batch) - 1),
      Faithful(batch) \o <<Item(UnknownId)>>,
      Faithful(batch) \o <<Item(1)>> }

Plain(p) == <<Json(p)>>

Fenced(p) == <<Tok("FENCE"), Tok("NL"), Json(p), Tok("NL"), Tok("FENCE")>>

FencedJson(p) ==
    <<Tok("FENCE"), Tok("json"), Tok("NL"), Json(p), Tok("NL"), Tok("FENCE")>>

Think(p) ==
    <<Tok("<think>"), Tok("NL"), Tok("text"), Tok("NL"), Tok("</think>"),
      Tok("NL"), Tok("NL"), Json(p)>>

ThinkFenced(p) ==
    <<Tok("<think>"), Tok("text"), Tok("</think>"), Tok("NL")>> \o FencedJson(p)

\* texts that are no JSON after cleaning
Prose(p) == <<Tok("text"), Tok("NL"), Json(p)>>

FencedOtherTag(p) ==
    <<Tok("FENCE"), Tok("text"), Tok("NL"), Json(p), Tok("NL"), Tok("FENCE")>>

UnclosedThink(p) == <<Tok("<think>"), Tok("text"), Tok("NL"), Json(p)>>

LlmResponses(batch) ==
    UNION {{Plain(p), Fenced(p), FencedJson(p), Think(p), ThinkFenced(p)}
           : p \in LlmPayloads(batch)}
    \cup {Prose(Faithful(batch)), FencedOtherTag(Faithful(batch)),
          UnclosedThink(Faithful(batch)), <<>>}

----------------------------------------------------------------------------
(* SentimentAnalyzer.analyze_all and analyze_batch *)

BatchSliceFromStart(cs, offset, bs) == SubSeq(cs, 1, Min(bs, Len(cs)))

BatchSliceShort(cs, offset, bs) == SubSeq(cs, offset + 1, Min(offset + bs, Len(cs)) - 1)

\* batch = comments[i:i + self.batch_size]
BatchSlice(cs, offset, bs) == SubSeq(cs, offset + 1, Min(offset + bs, Len(cs)))

AnalyzeAllStart ==
    /\ pc = "idle"
    /\ analyzer.exists
    /\ pc' = "loop"
    /\ i' = 0
    /\ all_results' = <<>>
    /\ UNCHANGED <<analyzer, ctor, comments, calls, batch_results,
                   last_response, error>>
    /\ UNCHANGED notSentVars

\* one iteration of the loop: analyze_batch builds the prompt, calls
\* ollama.generate once and parses the answer; an exception leaves analyze_all
AnalyzeBatchParsed ==
    /\ pc = "loop"
    /\ i < Len(comments)
    /\ LET batch == BatchSlice(comments, i, analyzer.batch_size)
       IN \E response_text \in LlmResponses(batch) :
            LET parsed == ParseResponse(response_text, batch)
            IN /\ calls' = Append(calls, batch)
               /\ last_response' = response_text
               /\ IF parsed.ok
                  THEN /\ all_results' = all_results \o parsed.results
                       /\ batch_results' = Append(batch_results, parsed.results)
                       /\ i' = i + analyzer.batch_size
                       /\ UNCHANGED <<pc, error>>
                  ELSE /\ pc' = "raised"
                       /\ error' = parsed.error
                       /\ UNCHANGED <<all_results, batch_results, i>>
    /\ UNCHANGED <<analyzer, ctor, comments>>
    /\ UNCHANGED notSentVars

\* ollama.generate itself raises (the service is down)
AnalyzeBatchLlmFails ==
    /\ pc = "loop"
    /\ i < Len(comments)
    /\ calls' = Append(calls, BatchSlice(comments, i, analyzer.batch_size))
    /\ pc' = "raised"
    /\ last_response' = <<>>
    /\ error' = [type |-> "OllamaError", response |-> <<>>]
    /\ UNCHANGED <<analyzer, ctor, comments, i, all_results, batch_results>>
    /\ UNCHANGED notSentVars

\* range(0, len(comments), batch_size) is exhausted: return all_results
AnalyzeAllReturn ==
    /\ pc = "loop"
    /\ i >= Len(comments)
    /\ pc' = "returned"
    /\ UNCHANGED <<analyzer, ctor, comments, i, all_results, calls,
                   batch_results, last_response, error>>
    /\ UNCHANGED notSentVars

----------------------------------------------------------------------------
(* cli.py: parse_usernames.  A line of the user file is a sequence of      *)
(* characters without its newline: SP is white space, ARROW the delimiter, *)
(* anything else a character of a name.                                    *)

IsBlankChar(ch) == ch = "SP"

\* str.strip() of a line
RECURSIVE LStripLine(_)
LStripLine(line) ==
    IF line # <<>> /\ IsBlankChar(Head(line)) THEN LStripLine(Tail(line))
    ELSE line

RECURSIVE RStripLine(_)
RStripLine(line) ==
    IF line # <<>> /\ IsBlankChar(line[Len(line)])
    THEN RStripLine(SubSeq(line, 1, Len(line) - 1))
    ELSE line

StripLine(line) == RStripLine(LStripLine(line))

SplitAtLast(line) ==
    LET p == MaxOf({x \in 1..Len(line) : line[x] = "ARROW"})
    IN <<SubSeq(line, 1, p - 1), SubSeq(line, p + 1, Len(line))>>

\* line.split(ARROW, 1): the text before the first delimiter and the text
\* after it
SplitOnce(line) ==
    LET p == MinOf({x \in 1..Len(line) : line[x] = "ARROW"})
    IN <<SubSeq(line, 1, p - 1), SubSeq(line, p + 1, Len(line))>>

\* the body of the loop of parse_usernames: what one line appends to usernames
UsernamesOfLine(raw) ==
    LET line == StripLine(raw)
    IN IF line = <<>> THEN <<>>
       ELSE IF "ARROW" \in Range(line)
            THEN LET parts == SplitOnce(line)
                     username == StripLine(parts[2])
                 IN IF username # <<>> THEN <<username>> ELSE <<>>
            ELSE <<line>>

RECURSIVE ParseUsernames(_)
ParseUsernames(lines) ==
    IF lines = <<>> THEN <<>>
    ELSE UsernamesOfLine(Head(lines)) \o ParseUsernames(Tail(lines))

NoUsernames == [called |-> FALSE, value |-> <<>>]

ParseUsernamesCall ==
    /\ ~ usernames.called
    /\ usernames' = [called |-> TRUE, value |-> ParseUsernames(userfile)]
    /\ UNCHANGED userfile
    /\ UNCHANGED notNamesVars

NamesIdle ==
    /\ userfile = <<>>
    /\ usernames = NoUsernames

----------------------------------------------------------------------------
(* reddit_client.py: _parse_submission_id.  A URL is a sequence of pieces  *)
(* of text; a piece is given by what the two expressions can see of it:    *)
(* whether it is the text /comments/ or redd.it/, the letters and digits   *)
(* it starts with (lead), and whether it holds nothing else (whole).       *)

UrlPiece(k, lead, whole) == [k |-> k, lead |-> lead, whole |-> whole]

\* https://www.reddit.com/r/productivity
PostBase == UrlPiece("base", <<"https">>, FALSE)

\* https://www.reddit.com/user/someuser
UserBase == UrlPiece("user", <<"https">>, FALSE)

\* https://example.com
OtherBase == UrlPiece("other", <<"https">>, FALSE)

\* https://
Scheme == UrlPiece("scheme", <<"https">>, FALSE)

CommentsPiece == UrlPiece("comments", <<>>, FALSE)

ShortPiece == UrlPiece("short", <<"redd">>, FALSE)

IdPiece(s) == UrlPiece("id", <<s>>, TRUE)

\* /my_post_title/
TitlePiece == UrlPiece("title", <<>>, FALSE)

\* ([a-zA-Z0-9]+) from piece q on: the letters and digits up to the first
\* other character
RECURSIVE AlnumRun(_, _)
AlnumRun(url, q) ==
    IF q > Len(url) THEN <<>>
    ELSE IF url[q].whole THEN url[q].lead \o AlnumRun(url, q + 1)
         ELSE url[q].lead

\* re.search(pattern, url): the leftmost place where the text of the pattern
\* is followed by a letter or digit
SearchId(url, k) ==
    LET hits == {p \in 1..Len(url) :
                    url[p].k = k /\ AlnumRun(url, p + 1) # <<>>}
    IN IF hits = {} THEN [found |-> FALSE, id |-> <<>>]
       ELSE [found |-> TRUE, id |-> AlnumRun(url, MinOf(hits) + 1)]

\* RedditClient._parse_submission_id
ParseSubmissionId(url) ==
    LET standard == SearchId(url, "comments")
        short == SearchId(url, "short")
    IN IF standard.found THEN [raised |-> FALSE, id |-> standard.id]
       ELSE IF short.found THEN [raised |-> FALSE, id |-> short.id]
            ELSE [raised |-> TRUE, id |-> <<>>]

NoUrlCall == [op |-> "none", outcome |-> "none", id |-> <<>>, api |-> <<>>]

\* what a caller of _parse_submission_id does: the id is parsed first; the
\* calls to Reddit that follow may fail
UrlCall(op, url, api_after, api_fails) ==
    LET parsed == ParseSubmissionId(url)
        first == <<[call |-> "submission", id |-> parsed.id]>>
    IN IF parsed.raised
       THEN [op |-> op, outcome |-> "ValueError", id |-> <<>>, api |-> <<>>]
       ELSE [op |-> op,
             outcome |-> IF api_fails THEN "ApiError" ELSE "ok",
             id |-> parsed.id,
             api |-> IF api_fails THEN first ELSE first \o api_after]

\* RedditClient.get_submission
GetSubmission ==
    /\ url_call.op = "none"
    /\ \E api_fails \in BOOLEAN :
          url_call' = UrlCall("get_submission", post_url, <<>>, api_fails)
    /\ UNCHANGED post_url
    /\ UNCHANGED notUrlVars

\* RedditClient.get_top_level_comments
GetTopLevelComments ==
    /\ url_call.op = "none"
    /\ \E api_fails \in BOOLEAN :
          url_call' = UrlCall("get_top_level_comments", post_url,
                              <<[call |-> "replace_more", id |-> <<>>]>>,
                              api_fails)
    /\ UNCHANGED post_url
    /\ UNCHANGED notUrlVars

UrlIdle ==
    /\ post_url = <<>>
    /\ url_call = NoUrlCall

----------------------------------------------------------------------------
(* cli.py: the interest command.  Sentiment scores and the threshold are   *)
(* counted in tenths.                                                      *)

\* comments = [c for c in comments if c['score'] >= min_score], under
\* "if min_score > 0"
FilterByMinScore(cs, min_score) ==
    IF min_score > 0
    THEN SelectSeq(cs, LAMBDA c : c.score >= min_score)
    ELSE cs

\* list(dict.fromkeys(names)): each name once, at its first place
RECURSIVE DictFromKeys(_)
DictFromKeys(names) ==
    IF names = <<>> THEN <<>>
    ELSE LET front == DictFromKeys(SubSeq(names, 1, Len(names) - 1))
             last == names[Len(names)]
         IN IF last \in Range(front) THEN front ELSE Append(front, last)

\* the loop over results and the deduplication that follows it
InterestedUsers(results, threshold) ==
    LET qualifying == SelectSeq(results, LAMBDA r : r.score >= threshold)
    IN DictFromKeys([k \in 1..Len(qualifying) |-> qualifying[k].username])

NoOutput == [exists |-> FALSE, lines |-> <<>>]

NoOptions == [threshold |-> 0, min_score |-> 0, batch_size |-> 0]

\* get_submission or get_top_level_comments fails: click.ClickException
InterestFetchFails ==
    /\ interest_pc = "start"
    /\ interest_pc' = "failed"
    /\ UNCHANGED <<fetched, options, output_file>>
    /\ UNCHANGED notInterestVars

\* the comments are there: the two early returns and the score filter
InterestFilter ==
    /\ interest_pc = "start"
    /\ LET kept == FilterByMinScore(fetched, options.min_score)
       IN IF kept = <<>>
          THEN /\ interest_pc' = "done"
               /\ UNCHANGED comments
          ELSE /\ interest_pc' = "analyze"
               /\ comments' = kept
    /\ UNCHANGED <<fetched, options, output_file>>
    /\ UNCHANGED <<analyzer, ctor, pc, i, all_results, calls, batch_results,
                   last_response, error>>
    /\ UNCHANGED <<storeVars, codecVars, personaVars, cliVars, namesVars,
                   urlVars, fetchVars, embedVars>>

\* analyzer = SentimentAnalyzer(settings), with the batch size of the option
InterestConstruct ==
    /\ interest_pc = "analyze"
    /\ ~ ctor.called
    /\ Construct(options.batch_size)

\* analyzer.analyze_all(...): the steps of analyze_all
InterestAnalyzeStart ==
    /\ interest_pc = "analyze"
    /\ AnalyzeAllStart

InterestAnalyzeBatch ==
    /\ interest_pc = "analyze"
    /\ (AnalyzeBatchParsed \/ AnalyzeBatchLlmFails)

InterestAnalyzeReturn ==
    /\ interest_pc = "analyze"
    /\ AnalyzeAllReturn

\* the constructor or analyze_all raised: nothing catches it
InterestRaises ==
    /\ interest_pc = "analyze"
    /\ ctor.outcome = "ValueError" \/ pc = "raised"
    /\ interest_pc' = "raised"
    /\ UNCHANGED <<fetched, options, output_file>>
    /\ UNCHANGED notInterestVars

\* the results are there: threshold, deduplication, and the output file
InterestWrite ==
    /\ interest_pc = "analyze"
    /\ pc = "returned"
    /\ LET interested_users == InterestedUsers(all_results, options.threshold)
       IN IF interested_users = <<>>
          THEN UNCHANGED output_file
          ELSE output_file' = [exists |-> TRUE, lines |-> interested_users]
    /\ interest_pc' = "done"
    /\ UNCHANGED <<fetched, options>>
    /\ UNCHANGED notInterestVars

InterestIdle ==
    /\ fetched = <<>>
    /\ options = NoOptions
    /\ interest_pc = "idle"
    /\ output_file = NoOutput

----------------------------------------------------------------------------
(* cli.py: the fetch command, run after run over one output directory *)

NoCommentFile == [exists |-> FALSE, writes |-> 0, content |-> "none"]

NoFetchRun == [pc |-> "idle", usernames |-> <<>>, to_process |-> <<>>,
               i |-> 0, start |-> [u \in Usernames |-> NoCommentFile],
               failed |-> {}, runs |-> 0]

\* what Reddit may give for a user: the comments change between two fetches
Fetchable == {"v1", "v2"}

\* the filter under "if skip_existing": users whose file is not there
ToProcess(names, dir) == SelectSeq(names, LAMBDA u : ~ dir[u].exists)

\* open(output_path, 'w') and the writes that follow
WriteCommentFile(file, content) ==
    [exists |-> TRUE, writes |-> file.writes + 1, content |-> content]

\* fetch up to the loop: parse_usernames, the filter, the early return
FetchStart(names) ==
    /\ fetch_run.pc \in {"idle", "done"}
    /\ fetch_run.runs < MaxRuns
    /\ LET to_process == ToProcess(names, out_dir)
       IN fetch_run' = [pc |-> IF to_process = <<>> THEN "done" ELSE "loop",
                        usernames |-> names,
                        to_process |-> to_process,
                        i |-> 1,
                        start |-> out_dir,
                        failed |-> {},
                        runs |-> fetch_run.runs + 1]
    /\ UNCHANGED out_dir
    /\ UNCHANGED notFetchVars

\* one turn of the loop: get_user_comments and save_comments_to_markdown
\* both return
FetchUserSaved ==
    /\ fetch_run.pc = "loop"
    /\ fetch_run.i <= Len(fetch_run.to_process)
    /\ LET username == fetch_run.to_process[fetch_run.i]
       IN \E comments_got \in Fetchable :
             out_dir' = [out_dir EXCEPT ![username] =
                            WriteCommentFile(out_dir[username], comments_got)]
    /\ fetch_run' = [fetch_run EXCEPT !.i = @ + 1]
    /\ UNCHANGED notFetchVars

\* get_user_comments raises: the except clause prints it, the loop goes on
FetchUserFails ==
    /\ fetch_run.pc = "loop"
    /\ fetch_run.i <= Len(fetch_run.to_process)
    /\ LET username == fetch_run.to_process[fetch_run.i]
       IN fetch_run' = [fetch_run EXCEPT !.i = @ + 1,
                                         !.failed = @ \cup {username}]
    /\ UNCHANGED out_dir
    /\ UNCHANGED notFetchVars

\* save_comments_to_markdown raises: in open, or in a write after it
FetchSaveFails ==
    /\ fetch_run.pc = "loop"
    /\ fetch_run.i <= Len(fetch_run.to_process)
    /\ LET username == fetch_run.to_process[fetch_run.i]
       IN \E opened \in BOOLEAN :
             out_dir' = IF opened
                        THEN [out_dir EXCEPT ![username] =
                                 WriteCommentFile(out_dir[username], "partial")]
                        ELSE out_dir
    /\ fetch_run' = [fetch_run EXCEPT !.i = @ + 1]
    /\ UNCHANGED notFetchVars

\* the list is exhausted
FetchDone ==
    /\ fetch_run.pc = "loop"
    /\ fetch_run.i > Len(fetch_run.to_process)
    /\ fetch_run' = [fetch_run EXCEPT !.pc = "done"]
    /\ UNCHANGED out_dir
    /\ UNCHANGED notFetchVars

FetchIdle ==
    /\ out_dir = [u \in Usernames |-> NoCommentFile]
    /\ fetch_run = NoFetchRun

----------------------------------------------------------------------------
(* cli.py: the embed command.  A file name is a sequence of pieces of      *)
(* text: the pieces of a username (a word, or a hyphen), the persona       *)
(* suffix in one of its two casings, and the extension.                    *)

CommentFileName(stem) == stem \o <<".md">>

\* f.name.lower()
LowerName(name) ==
    [k \in 1..Len(name) |-> IF name[k] = "_Persona" THEN "_persona" ELSE name[k]]

\* str.endswith
EndsWith(name, suffix) ==
    /\ Len(name) >= Len(suffix)
    /\ SubSeq(name, Len(name) - Len(suffix) + 1, Len(name)) = suffix

\* Path.stem of a name that ends with .md
Stem(name) == SubSeq(name, 1, Len(name) - 1)

\* f.stem.replace('_Persona', '')
ReplacePersona(stem) == SelectSeq(stem, LAMBDA piece : piece # "_Persona")

\* (\w+) at the start of a text: its pieces up to the first hyphen
RECURSIVE WordMatch(_)
WordMatch(text) ==
    IF text = <<>> \/ Head(text) \in {"-", ".md"} THEN <<>>
    ELSE <<Head(text)>> \o WordMatch(Tail(text))

\* the text of a username, as the store gets it
NameText(pieces) ==
    CASE pieces = <<"alice">> -> "alice"
      [] pieces = <<"alice", "-", "x">> -> "alice-x"
      [] pieces = <<"alice", "_persona">> -> "alice_persona"
      [] pieces = <<"alice", "_Persona">> -> "alice_Persona"
      [] pieces = <<"alice", "-", "x", "_Persona">> -> "alice-x_Persona"
      [] pieces = <<>> -> ""

\* the name generate_persona writes into the header of a persona: the stem
\* of the comment file, which the name of the persona file repeats
PersonaHeaderOf(name) ==
    SelectSeq(Stem(name), LAMBDA piece : piece \notin {"_Persona", "_persona"})

\* parse_persona_file(persona_file)['username']
PersonaUsernameOf(name) == WordMatch(PersonaHeaderOf(name))

EmbedComment(body, permalink) ==
    [body |-> body, score |-> 24, subreddit |-> "productivity",
     created_utc |-> 1700000000, permalink |-> permalink]

\* parse_comments_file(f): two comments in the comment file of alice, none
\* in any other file
CommentsIn(name) ==
    IF name = CommentFileName(<<"alice">>)
    THEN <<EmbedComment("b1", "https://reddit.com/r/a/comments/p1/t/c1/"),
           EmbedComment("b2", "https://reddit.com/r/a/comments/p1/t/c2/")>>
    ELSE <<>>

\* the orders in which glob may give the files of a set
OrdersOf(S) ==
    {s \in [1..Cardinality(S) -> S] :
        \A x, y \in 1..Cardinality(S) : x # y => s[x] # s[y]}

NoUser == <<>>

CommentFilesIncludingPersonas(dir, user) ==
    IF user # NoUser
    THEN IF CommentFileName(user) \in dir
         THEN {<<CommentFileName(user)>>} ELSE {<<>>}
    ELSE OrdersOf(dir)

\* comment_files of embed (lines 193-198)
CommentFiles(dir, user) ==
    IF user # NoUser
    THEN IF CommentFileName(user) \in dir
         THEN {<<CommentFileName(user)>>} ELSE {<<>>}
    ELSE OrdersOf({f \in dir :
                      ~ EndsWith(LowerName(f), <<"_persona", ".md">>)})

\* persona_files of embed (lines 193-199)
PersonaFiles(dir, user) ==
    IF user # NoUser
    THEN IF user \o <<"_Persona", ".md">> \in dir
         THEN {<<user \o <<"_Persona", ".md">>>>} ELSE {<<>>}
    ELSE OrdersOf({f \in dir : EndsWith(f, <<"_Persona", ".md">>)})

NoEmbedRun ==
    [pc |-> "idle", collection |-> "all", user |-> NoUser,
     skip_existing |-> TRUE, comment_files |-> <<>>, persona_files |-> <<>>,
     k |-> 1, c |-> 1, kept |-> <<>>, upserts |-> 0, initialized |-> FALSE,
     start |-> {}]

\* "if collection in ['personas', 'all'] and persona_files", and what follows
\* the block when the condition is false
ToPersonas(run) ==
    IF run.collection \in {"personas", "all"} /\ run.persona_files # <<>>
    THEN [run EXCEPT !.pc = IF run.skip_existing THEN "probe_personas"
                            ELSE "personas",
                     !.k = 1, !.c = 1, !.kept = <<>>]
    ELSE [run EXCEPT !.pc = "done"]

\* "if collection in ['comments', 'all'] and comment_files"
ToComments(run) ==
    IF run.collection \in {"comments", "all"} /\ run.comment_files # <<>>
    THEN [run EXCEPT !.pc = IF run.skip_existing THEN "probe_comments"
                            ELSE "comments",
                     !.k = 1, !.c = 1, !.kept = <<>>]
    ELSE ToPersonas(run)

\* a call of a service fails: one of the failures that are left
Fault ==
    /\ embed_faults > 0
    /\ embed_faults' = embed_faults - 1

\* the command is invoked
EmbedStart(collection, user, skip_existing) ==
    /\ embed_run.pc \in {"idle", "done", "raised"}
    /\ embed_run' = [NoEmbedRun EXCEPT !.pc = "init",
                                       !.collection = collection,
                                       !.user = user,
                                       !.skip_existing = skip_existing,
                                       !.start = coll_comments]
    /\ UNCHANGED <<in_dir, embed_faults>>
    /\ UNCHANGED notEmbedVars

EmbedUnchangedStore ==
    UNCHANGED <<store_call, now, store_outcome, ids_used, stored_comments,
                stored_personas>>

EmbedUnchangedOthers ==
    UNCHANGED <<sentVars, codecVars, personaVars, cliVars, namesVars, urlVars,
                interestVars, fetchVars>>

\* store.initialize_collections() returns, and the files are looked up
EmbedInit ==
    /\ embed_run.pc = "init"
    /\ LET st == InitLoop([existing |-> existing,
                           vectors_config |-> vectors_config,
                           comments |-> coll_comments,
                           personas |-> coll_personas, created |-> <<>>], 2)
       IN /\ existing' = st.existing
          /\ vectors_config' = st.vectors_config
          /\ coll_comments' = st.comments
          /\ coll_personas' = st.personas
    /\ \E cf \in CommentFiles(in_dir, embed_run.user),
          pf \in PersonaFiles(in_dir, embed_run.user) :
          embed_run' = ToComments([embed_run EXCEPT !.initialized = TRUE,
                                                    !.comment_files = cf,
                                                    !.persona_files = pf])
    /\ UNCHANGED <<in_dir, embed_faults>>
    /\ EmbedUnchangedStore
    /\ EmbedUnchangedOthers

EmbedInitRaisesButGoesOn ==
    /\ embed_run' = ToComments([embed_run EXCEPT
                                   !.comment_files =
                                       CHOOSE cf \in CommentFiles(in_dir, embed_run.user) : TRUE,
                                   !.persona_files =
                                       CHOOSE pf \in PersonaFiles(in_dir, embed_run.user) : TRUE])

\* initialize_collections raises: nothing catches it, the command ends
EmbedInitRaisesEnds ==
    /\ embed_run' = [embed_run EXCEPT !.pc = "raised"]

EmbedInitRaises ==
    /\ embed_run.pc = "init"
    /\ Fault
    /\ \E turns \in {0, 1} :
          LET st == InitLoop([existing |-> existing,
                              vectors_config |-> vectors_config,
                              comments |-> coll_comments,
                              personas |-> coll_personas, created |-> <<>>],
                             turns)
          IN /\ existing' = st.existing
             /\ vectors_config' = st.vectors_config
             /\ coll_comments' = st.comments
             /\ coll_personas' = st.personas
    /\ EmbedInitRaisesEnds
    /\ UNCHANGED in_dir
    /\ EmbedUnchangedStore
    /\ EmbedUnchangedOthers

EmbedOnlyRunMoves ==
    /\ UNCHANGED <<in_dir, embed_faults>>
    /\ UNCHANGED notEmbedVars

EmbedRunMovesAfterFault ==
    /\ Fault
    /\ UNCHANGED in_dir
    /\ UNCHANGED notEmbedVars

\* the filter of the comment files: store.user_has_comments(f.stem) answers
EmbedProbeComments ==
    /\ embed_run.pc = "probe_comments"
    /\ embed_run.k <= Len(embed_run.comment_files)
    /\ LET f == embed_run.comment_files[embed_run.k]
           username == NameText(Stem(f))
           has == \E page \in Scroll(coll_comments, username, 1) : page # {}
       IN embed_run' = [embed_run EXCEPT
                           !.k = @ + 1,
                           !.kept = IF has THEN @ ELSE Append(@, f)]
    /\ EmbedOnlyRunMoves

\* the backend fails under the probe: user_has_comments returns False
EmbedProbeCommentsFails ==
    /\ embed_run.pc = "probe_comments"
    /\ embed_run.k <= Len(embed_run.comment_files)
    /\ embed_run' = [embed_run EXCEPT
                        !.k = @ + 1,
                        !.kept = Append(@, embed_run.comment_files[embed_run.k])]
    /\ EmbedRunMovesAfterFault

\* comment_files = files_to_embed, and "if comment_files"
EmbedProbeCommentsEnd ==
    /\ embed_run.pc = "probe_comments"
    /\ embed_run.k > Len(embed_run.comment_files)
    /\ embed_run' =
          IF embed_run.kept # <<>>
          THEN [embed_run EXCEPT !.comment_files = embed_run.kept,
                                 !.pc = "comments", !.k = 1, !.c = 1]
          ELSE ToPersonas([embed_run EXCEPT !.comment_files = <<>>])
    /\ EmbedOnlyRunMoves

\* store.store_comment(comment, username=username) returns
EmbedCommentStored ==
    /\ embed_run.pc = "comments"
    /\ embed_run.k <= Len(embed_run.comment_files)
    /\ LET f == embed_run.comment_files[embed_run.k]
           parsed == CommentsIn(f)
       IN /\ embed_run.c <= Len(parsed)
          /\ coll_comments' =
                Upsert(coll_comments,
                       CommentPoint(parsed[embed_run.c], NameText(Stem(f))))
    /\ embed_run' = [embed_run EXCEPT !.c = @ + 1, !.upserts = @ + 1]
    /\ UNCHANGED <<in_dir, embed_faults>>
    /\ UNCHANGED <<existing, vectors_config, coll_personas>>
    /\ EmbedUnchangedStore
    /\ EmbedUnchangedOthers

\* store_comment raises: the except clause of the file, then the next file
EmbedCommentFails ==
    /\ embed_run.pc = "comments"
    /\ embed_run.k <= Len(embed_run.comment_files)
    /\ embed_run.c <= Len(CommentsIn(embed_run.comment_files[embed_run.k]))
    /\ embed_run' = [embed_run EXCEPT !.k = @ + 1, !.c = 1]
    /\ EmbedRunMovesAfterFault

\* the comments of the file are through
EmbedCommentFileDone ==
    /\ embed_run.pc = "comments"
    /\ embed_run.k <= Len(embed_run.comment_files)
    /\ embed_run.c > Len(CommentsIn(embed_run.comment_files[embed_run.k]))
    /\ embed_run' = [embed_run EXCEPT !.k = @ + 1, !.c = 1]
    /\ EmbedOnlyRunMoves

\* the comment files are through
EmbedCommentsEnd ==
    /\ embed_run.pc = "comments"
    /\ embed_run.k > Len(embed_run.comment_files)
    /\ embed_run' = ToPersonas(embed_run)
    /\ EmbedOnlyRunMoves

\* username = f.stem.replace('_Persona', ''), the name the filter probes
ProbedName(f) == NameText(ReplacePersona(Stem(f)))

\* the filter of the persona files: store.user_has_persona(username) answers
EmbedProbePersona ==
    /\ embed_run.pc = "probe_personas"
    /\ embed_run.k <= Len(embed_run.persona_files)
    /\ LET f == embed_run.persona_files[embed_run.k]
           has == Retrieve(coll_personas, {UsernameToUuid(ProbedName(f))}) # {}
       IN embed_run' = [embed_run EXCEPT
                           !.k = @ + 1,
                           !.kept = IF has THEN @ ELSE Append(@, f)]
    /\ EmbedOnlyRunMoves

\* the backend fails under the probe: user_has_persona returns False
EmbedProbePersonaFails ==
    /\ embed_run.pc = "probe_personas"
    /\ embed_run.k <= Len(embed_run.persona_files)
    /\ embed_run' = [embed_run EXCEPT
                        !.k = @ + 1,
                        !.kept = Append(@, embed_run.persona_files[embed_run.k])]
    /\ EmbedRunMovesAfterFault

\* persona_files = files_to_embed, and "if persona_files"
EmbedProbePersonasEnd ==
    /\ embed_run.pc = "probe_personas"
    /\ embed_run.k > Len(embed_run.persona_files)
    /\ embed_run' =
          IF embed_run.kept # <<>>
          THEN [embed_run EXCEPT !.persona_files = embed_run.kept,
                                 !.pc = "personas", !.k = 1, !.c = 1]
          ELSE [embed_run EXCEPT !.persona_files = <<>>, !.pc = "done"]
    /\ EmbedOnlyRunMoves

\* the point store_persona makes of a persona file (lines 261-277)
EmbedPersonaPoint(f, dir, clock) ==
    LET username == PersonaUsernameOf(f)
        comment_file == CommentFileName(username)
        comment_count == IF comment_file \in dir
                         THEN Len(CommentsIn(comment_file)) ELSE 0
    IN PersonaPoint(NameText(username), f, "The Creator", <<>>,
                    comment_count, clock)

\* parse_persona_file, the count of the comments, store.store_persona return
EmbedPersonaStored ==
    /\ embed_run.pc = "personas"
    /\ embed_run.k <= Len(embed_run.persona_files)
    /\ coll_personas' =
          Upsert(coll_personas,
                 EmbedPersonaPoint(embed_run.persona_files[embed_run.k],
                                   in_dir, now))
    /\ embed_run' = [embed_run EXCEPT !.k = @ + 1, !.upserts = @ + 1]
    /\ UNCHANGED <<in_dir, embed_faults>>
    /\ UNCHANGED <<existing, vectors_config, coll_comments>>
    /\ EmbedUnchangedStore
    /\ EmbedUnchangedOthers

\* store_persona raises: the except clause, then the next file
EmbedPersonaFails ==
    /\ embed_run.pc = "personas"
    /\ embed_run.k <= Len(embed_run.persona_files)
    /\ embed_run' = [embed_run EXCEPT !.k = @ + 1]
    /\ EmbedRunMovesAfterFault

\* the persona files are through
EmbedPersonasEnd ==
    /\ embed_run.pc = "personas"
    /\ embed_run.k > Len(embed_run.persona_files)
    /\ embed_run' = [embed_run EXCEPT !.pc = "done"]
    /\ EmbedOnlyRunMoves

EmbedIdle ==
    /\ in_dir = {}
    /\ embed_run = NoEmbedRun
    /\ embed_faults = 0

SentimentIdle ==
    /\ analyzer = NoAnalyzer
    /\ ctor = NoCtor
    /\ comments = <<>>
    /\ pc = "idle"
    /\ i = 0
    /\ all_results = <<>>
    /\ calls = <<>>
    /\ batch_results = <<>>
    /\ last_response = <<>>
    /\ error = NoError

InitSentiment ==
    /\ EmbedIdle
    /\ FetchIdle
    /\ InterestIdle
    /\ UrlIdle
    /\ NamesIdle
    /\ StoreIdle
    /\ CodecIdle
    /\ PersonaIdle
    /\ CliIdle
    /\ analyzer = NoAnalyzer
    /\ ctor = NoCtor
    /\ comments \in CommentLists
    /\ pc = "idle"
    /\ i = 0
    /\ all_results = <<>>
    /\ calls = <<>>
    /\ batch_results = <<>>
    /\ last_response = <<>>
    /\ error = NoError

NextSentiment ==
    \/ \E bs \in BatchSizes : Construct(bs)
    \/ AnalyzeAllStart
    \/ AnalyzeBatchParsed
    \/ AnalyzeBatchLlmFails
    \/ AnalyzeAllReturn

SpecSentiment == InitSentiment /\ [][NextSentiment]_vars

----------------------------------------------------------------------------
(* Properties of the sentiment batch protocol *)

Ids(cs) == {cs[k].id : k \in 1..Len(cs)}

ResultIds(rs) == {rs[k].comment_id : k \in 1..Len(rs)}

Ceil(n, b) == (n + b - 1) \div b

\* every answer so far holds exactly one item per comment of its batch
AllAnswersFaithful ==
    /\ Len(batch_results) = Len(calls)
    /\ \A k \in 1..Len(calls) :
          /\ Len(batch_results[k]) = Len(calls[k])
          /\ ResultIds(batch_results[k]) = Ids(calls[k])

C5_ConsecutiveBatches ==
    LET N == Len(comments)
        B == analyzer.batch_size
    IN pc # "idle" =>
        /\ Len(calls) <= Ceil(N, B)
        /\ \A k \in 1..Len(calls) :
              calls[k] = SubSeq(comments, (k - 1) * B + 1, Min(k * B, N))
        /\ \A k \in 1..(Len(calls) - 1) : Len(calls[k]) = B
        /\ pc = "returned" =>
              /\ Len(calls) = Ceil(N, B)
              /\ Concat(calls) = comments
              /\ Len(batch_results) = Len(calls)
              /\ all_results = Concat(batch_results)

C5_Witness ==
    /\ pc = "returned"
    /\ Len(calls) = 2
    /\ Len(calls[1]) = 2
    /\ Len(calls[2]) = 1
    /\ all_results = batch_results[1] \o batch_results[2]

\* C6: the constructor raises ValueError exactly for a batch_size outside
\* 1..100 and otherwise stores it; no analyzer has a batch_size outside 1..100.
C6_BatchSizeBounds ==
    /\ ctor.called =>
          /\ ctor.outcome = "ValueError" <=> ctor.batch_size \notin 1..100
          /\ ctor.outcome = "ok" <=> ctor.batch_size \in 1..100
          /\ ctor.outcome = "ok" =>
                (analyzer.exists /\ analyzer.batch_size = ctor.batch_size)
          /\ ctor.outcome = "ValueError" => ~ analyzer.exists
    /\ analyzer.exists => analyzer.batch_size \in 1..100

C6_Witness ==
    /\ ctor.called
    /\ ctor.batch_size = 101
    /\ ctor.outcome = "ValueError"
    /\ ~ analyzer.exists

TolerantForms(p) == {Plain(p), Fenced(p), FencedJson(p), Think(p)}

\* C7: for one JSON payload, the plain array, the array in a code fence (with
\* or without the json tag) and the array after a think block all parse, and
\* to the same results; a call answered in any of these forms succeeds with
\* the results of the plain form.
C7_ResponseTolerance ==
    \A k \in 1..Len(calls) : \A p \in LlmPayloads(calls[k]) :
        LET plain == ParseResponse(Plain(p), calls[k])
        IN /\ plain.ok
           /\ \A text \in TolerantForms(p) : ParseResponse(text, calls[k]) = plain
           /\ (k = Len(calls) /\ last_response \in TolerantForms(p)) =>
                 /\ pc # "raised"
                 /\ Len(batch_results) = Len(calls)
                 /\ batch_results[k] = plain.results

C7_Witness ==
    /\ pc = "loop"
    /\ Len(calls) = 1
    /\ Len(calls[1]) = 2
    /\ last_response = Think(Faithful(calls[1]))
    /\ Len(batch_results) = 1
    /\ Len(batch_results[1]) = 2

\* C8: when the answer, cleaned of a think block and a code fence, is not
\* valid JSON, analyze_batch raises a ValueError that carries the raw
\* response text; the batch is not sent again and nothing is returned.
C8_MalformedJsonRaises ==
    (calls # <<>> /\ error.type # "OllamaError"
        /\ ~ JsonValid(CleanResponse(last_response))) =>
        /\ pc = "raised"
        /\ error.type = "ValueError"
        /\ error.response = last_response
        /\ Len(batch_results) = Len(calls) - 1
        /\ \A k \in 1..(Len(calls) - 1) : calls[k] # calls[Len(calls)]

C8_Witness ==
    /\ pc = "raised"
    /\ error.type = "ValueError"
    /\ Len(calls) = 2
    /\ all_results # <<>>
    /\ last_response = FencedOtherTag(Faithful(calls[2]))
    /\ error.response = last_response

AuthorIn(batch, id) == (CHOOSE c \in Range(batch) : c.id = id).author

\* C9 as stated: a result's username is the author the request batch gives
\* for its comment_id, never a name from the response, and it is "unknown"
\* exactly when the id is not an id of the request batch.
C9_UnknownExactlyWhenUnrecognised ==
    \A k \in 1..Len(batch_results) : \A j \in 1..Len(batch_results[k]) :
        LET r == batch_results[k][j]
        IN /\ r.comment_id \in Ids(calls[k]) =>
                 r.username = AuthorIn(calls[k], r.comment_id)
           /\ r.username = "unknown" <=> r.comment_id \notin Ids(calls[k])

\* C9 amended: a result's username is the author the request batch gives for
\* its comment_id, never a name from the response; it is "unknown" whenever
\* the id is not an id of the request batch, and otherwise only when that
\* author is itself named "unknown".
C9_UsernameFromRequest ==
    \A k \in 1..Len(batch_results) : \A j \in 1..Len(batch_results[k]) :
        LET r == batch_results[k][j]
        IN /\ r.comment_id \in Ids(calls[k]) =>
                 r.username = AuthorIn(calls[k], r.comment_id)
           /\ r.comment_id \notin Ids(calls[k]) => r.username = "unknown"
           /\ r.username = "unknown" =>
                 \/ r.comment_id \notin Ids(calls[k])
                 \/ AuthorIn(calls[k], r.comment_id) = "unknown"

C9_Witness ==
    /\ Len(batch_results) = 1
    /\ Len(batch_results[1]) = 3
    /\ batch_results[1][1].username = "alice"
    /\ batch_results[1][3].comment_id = UnknownId
    /\ batch_results[1][3].username = "unknown"

----------------------------------------------------------------------------
(* The vector store under any sequence of store calls *)

PersonaTexts == {"t1", "t2"}

Queries == {"b1", "remote work"}

SearchCollections == {"comments", "personas", "posts"}

SearchLimits == {1, 10}

\* the configurations a collection made earlier may have
PriorParams == {VectorParams, [size |-> 384, distance |-> "Dot"]}

\* Qdrant when the program starts: no collection, or collections (empty
\* here) that an earlier run or somebody else made
InitStore ==
    /\ EmbedIdle
    /\ FetchIdle
    /\ InterestIdle
    /\ UrlIdle
    /\ NamesIdle
    /\ SentimentIdle
    /\ CodecIdle
    /\ PersonaIdle
    /\ CliIdle
    /\ existing \in SUBSET {CommentsCollection, PersonasCollection}
    /\ vectors_config \in [existing -> PriorParams]
    /\ store_call = NoCall
    /\ coll_comments = {}
    /\ coll_personas = {}
    /\ now = 0
    /\ store_outcome = "none"
    /\ ids_used = {}
    /\ stored_comments = {}
    /\ stored_personas = {}

NextStore ==
    \/ InitializeCollections
    \/ InitializeCollectionsRaises
    \/ \E comment \in StoreInputComments, username \in Usernames :
          StoreComment(comment, username)
    \/ \E username \in Usernames, persona_text \in PersonaTexts :
          StorePersona(username, persona_text, "The Sage", <<"productivity">>, 5)
    \/ StoreRaises
    \/ \E username \in Usernames : UserHasComments(username)
    \/ \E username \in Usernames : UserHasPersona(username)
    \/ \E query \in Queries, collection \in SearchCollections,
          limit \in SearchLimits : SearchSimilar(query, collection, limit)
    \/ \E query \in Queries, collection \in SearchCollections,
          limit \in SearchLimits : SearchSimilarRaises(query, collection, limit)

SpecStore == InitStore /\ [][NextStore]_vars

\* C1: the id handed to upsert is a function of the natural key alone: two
\* stores of one permalink (or of one username) use the same id, whatever
\* the body, the username argument, the payload and the state of the store,
\* and that id is the MD5 identifier of the key.
C1_IdDependsOnlyOnKey ==
    /\ \A a \in ids_used, b \in ids_used :
          (a.collection = b.collection /\ a.key = b.key) => a.id = b.id
    /\ \A a \in ids_used : a.id = Md5Uuid(a.key)

C1_Witness ==
    /\ now = 2
    /\ Cardinality(ids_used) = 1
    /\ \E a \in ids_used : a.collection = CommentsCollection
    /\ \E pt \in coll_comments :
          pt.payload.text = "b2" /\ pt.payload.username = "bob"

KeysOf(latest) == {e.key : e \in latest}

\* C2: after any sequence of store calls each collection holds exactly one
\* point per distinct key stored (permalink, username), and that point
\* carries the payload of the latest store of the key.
C2_OneRecordPerKey ==
    /\ Cardinality(coll_comments) = Cardinality(KeysOf(stored_comments))
    /\ Cardinality(coll_personas) = Cardinality(KeysOf(stored_personas))
    /\ \A e \in stored_comments :
          \E pt \in coll_comments :
             pt.id = PermalinkToUuid(e.key) /\ pt.payload = e.payload
    /\ \A e \in stored_personas :
          \E pt \in coll_personas :
             pt.id = UsernameToUuid(e.key) /\ pt.payload = e.payload

C2_Witness ==
    /\ now = 2
    /\ stored_personas # {}
    /\ Cardinality(coll_personas) = 1
    /\ \E pt \in coll_personas :
          pt.payload.embedded_at = 1 /\ pt.payload.persona_text = "t2"

----------------------------------------------------------------------------
(* The comment codec: a list is saved and read back, or a file that        *)
(* somebody else put into the directory is read                            *)

InitCodec ==
    /\ EmbedIdle
    /\ FetchIdle
    /\ InterestIdle
    /\ UrlIdle
    /\ NamesIdle
    /\ SentimentIdle
    /\ StoreIdle
    /\ PersonaIdle
    /\ CliIdle
    /\ parse_result = NoParse
    /\ \/ /\ user_comments \in CodecCommentLists
          /\ markdown_file = NoFile
          /\ codec_pc = "start"
       \/ /\ user_comments = <<>>
          /\ markdown_file \in {[exists |-> TRUE, lines |-> doc, by |-> "other"]
                                : doc \in Documents}
          /\ codec_pc = "written"

NextCodec ==
    \/ SaveCommentsToMarkdown
    \/ ParseCommentsFileCall

SpecCodec == InitCodec /\ [][NextCodec]_vars

\* the comments in the order save_comments_to_markdown writes them
WrittenOrder(cs) ==
    Concat([k \in 1..Len(SubredditOrder(cs)) |-> GroupOf(cs, SubredditOrder(cs)[k])])

\* C3: a comment list written by save_comments_to_markdown and read back by
\* parse_comments_file gives one record per written comment, with the body,
\* score, subreddit and permalink of the written comment and a created_utc
\* on the same calendar day.
C3_RoundTrip ==
    (codec_pc = "parsed" /\ markdown_file.by = "save_comments_to_markdown") =>
        /\ ~ parse_result.raised
        /\ Len(parse_result.comments) = Len(user_comments)
        /\ \A k \in 1..Len(user_comments) :
              LET w == WrittenOrder(user_comments)[k]
                  r == parse_result.comments[k]
              IN /\ r.body = w.body
                 /\ r.score = w.score
                 /\ r.subreddit = w.subreddit
                 /\ r.permalink = w.permalink
                 /\ LocalDate(r.created_utc) = LocalDate(w.created_utc)

\* a block of the exact grammar starts at line h, below a subreddit header:
\* heading, date, link, empty line, a body without separator, header or
\* heading lines, then the separator line
BlockEnds(doc, h) ==
    {t \in (h + 5)..Len(doc) :
        /\ doc[t] = Rule
        /\ \A x \in (h + 4)..(t - 1) :
              doc[x].k \notin {"rule", "dashes", "subreddit",
                                "inline_subreddit", "heading"}}

WellFormedBlockAt(doc, h) ==
    /\ h + 3 <= Len(doc)
    /\ \E x \in 1..(h - 1) : doc[x].k = "subreddit"
    /\ doc[h].k = "heading"
    /\ doc[h + 1].k = "date"
    /\ doc[h + 2].k = "link"
    /\ doc[h + 3] = Blank
    /\ BlockEnds(doc, h) # {}

RecordOfBlock(doc, h) ==
    [body |-> StripBody(SubSeq(doc, h + 4, MinOf(BlockEnds(doc, h)) - 1)),
     score |-> doc[h].n,
     subreddit |-> doc[MaxOf({x \in 1..(h - 1) : doc[x].k = "subreddit"})].s,
     created_utc |-> LocalMidnight(doc[h + 1].n),
     permalink |-> doc[h + 2].s]

\* C10: parse_comments_file raises on no document; blocks that miss the
\* grammar are left out and every well-formed block is returned.
C10_NeverRaisesKeepsWellFormedBlocks ==
    codec_pc = "parsed" =>
        /\ ~ parse_result.raised
        /\ \A h \in 1..Len(markdown_file.lines) :
              WellFormedBlockAt(markdown_file.lines, h) =>
                 RecordOfBlock(markdown_file.lines, h) \in Range(parse_result.comments)

----------------------------------------------------------------------------
(* parse_comments_file: subreddit headers and the end of a block *)

\* the lines of a document that are subreddit headers: ## r/<name> ...
HeaderLines(doc) == {h \in 1..Len(doc) : doc[h].k = "subreddit"}

\* the comment heading lines of a document that stand below a header line
HeadingsBelowHeader(doc) ==
    {h \in 1..Len(doc) :
        doc[h].k = "heading" /\ \E x \in HeaderLines(doc) : x < h}

\* C11: a block that no ## r/<name> header line precedes gives no record:
\* no record has an empty subreddit, every record carries the name of a
\* header line of the document, there are at most as many records as
\* comment headings below the first header line, and a document without
\* header line gives no record at all.
C11_NoRecordWithoutHeader ==
    codec_pc = "parsed" =>
        LET doc == markdown_file.lines
        IN /\ \A k \in 1..Len(parse_result.comments) :
                 /\ parse_result.comments[k].subreddit # ""
                 /\ \E h \in HeaderLines(doc) :
                       doc[h].s = parse_result.comments[k].subreddit
           /\ Len(parse_result.comments) <= Cardinality(HeadingsBelowHeader(doc))
           /\ HeaderLines(doc) = {} => parse_result.comments = <<>>

\* the name of the header line most recently seen above line h
SubredditAbove(doc, h) == doc[MaxOf({x \in HeaderLines(doc) : x < h})].s

\* C12: in a document whose comment headings all stand below a header line
\* (C11 is about the others), the records are those of comment blocks of the
\* document, in the order of the document, and each carries the name of the
\* header line most recently seen above its block.
C12_SubredditOfLatestHeader ==
    LET doc == markdown_file.lines
        n == Len(parse_result.comments)
    IN (/\ codec_pc = "parsed"
        /\ ~ parse_result.raised
        /\ \A h \in 1..Len(doc) :
              doc[h].k = "heading" => h \in HeadingsBelowHeader(doc)) =>
           \E f \in [1..n -> HeadingsBelowHeader(doc)] :
              /\ \A k \in 1..n, m \in 1..n : k < m => f[k] < f[m]
              /\ \A k \in 1..n :
                    /\ parse_result.comments[k].score = doc[f[k]].n
                    /\ parse_result.comments[k].subreddit =
                          SubredditAbove(doc, f[k])

\* the lines at which a comment block starts: heading, date and link lines
\* of the grammar and the empty line
BlockStarts(doc) ==
    {h \in 1..Len(doc) :
        /\ h + 3 <= Len(doc)
        /\ doc[h].k = "heading"
        /\ doc[h + 1].k = "date"
        /\ doc[h + 2].k = "link"
        /\ doc[h + 3] = Blank}

\* where the block that starts at line h ends: at the next line that is ---,
\* at the header line of the next section, or after the last line
BlockEnd(doc, h) ==
    MinOf({t \in (h + 4)..Len(doc) : doc[t] = Rule \/ t \in HeaderLines(doc)}
          \cup {Len(doc) + 1})

\* the text between the empty line after the link line and the end of the
\* block, trimmed
BodyOfBlock(doc, h) == StripBody(SubSeq(doc, h + 4, BlockEnd(doc, h) - 1))

\* C13: in a document whose header texts all stand at the start of a line
\* (C12 is about the others), the body of every record is the trimmed text
\* of a comment block from the empty line after its link line to the next
\* line that is --- (or the end of the section or of the input), with the
\* lines in between kept.
C13_BodyEndsAtSeparatorLine ==
    LET doc == markdown_file.lines
    IN (/\ codec_pc = "parsed"
        /\ ~ parse_result.raised
        /\ HeaderPositions(doc) = HeaderLines(doc)) =>
           \A k \in 1..Len(parse_result.comments) :
              \E h \in BlockStarts(doc) :
                 parse_result.comments[k].body = BodyOfBlock(doc, h)

----------------------------------------------------------------------------
(* save_comments_to_markdown: the sections of the file *)

RECURSIVE SortedSeq(_)
SortedSeq(S) ==
    IF S = {} THEN <<>> ELSE <<MinOf(S)>> \o SortedSeq(S \ {MinOf(S)})

\* the subreddits of a comment list, each at its first occurrence
FirstSeen(cs) ==
    LET firsts == {k \in 1..Len(cs) :
                      \A j \in 1..(k - 1) : cs[j].subreddit # cs[k].subreddit}
    IN [x \in 1..Cardinality(firsts) |-> cs[SortedSeq(firsts)[x]].subreddit]

\* the comment heading lines of the section whose header is at line p
HeadingsOfSection(lines, p) ==
    SortedSeq({h \in (p + 1)..Len(lines) :
                  /\ lines[h].k = "heading"
                  /\ \A x \in (p + 1)..h : lines[x].k # "subreddit"})

\* the block written at line h, up to the heading or header line that
\* follows it: what it says of its comment
WrittenBlock(lines, h) ==
    LET later == {x \in (h + 1)..Len(lines) :
                     lines[x].k \in {"heading", "subreddit"}}
        end == IF later = {} THEN Len(lines) ELSE MinOf(later) - 1
    IN [score |-> lines[h].n,
        day |-> lines[h + 1].n,
        permalink |-> lines[h + 2].s,
        body |-> SubSeq(lines, h + 4, end - 3),
        frame |-> <<lines[h].k, lines[h + 1].k, lines[h + 2].k, lines[h + 3]>>
                  \o SubSeq(lines, end - 2, end)]

\* what the block of comment c has to say
BlockOf(c) ==
    [score |-> c.score, day |-> LocalDate(c.created_utc),
     permalink |-> c.permalink, body |-> c.body,
     frame |-> <<"heading", "date", "link", Blank, Blank, Rule, Blank>>]

\* C14: the file that save_comments_to_markdown writes has one section per
\* distinct subreddit, in the order of first occurrence in the input, headed
\* by the subreddit and the number of its comments; a section holds one
\* block per comment of its subreddit, in input order; there are as many
\* blocks as comments, and the total-count line gives the input length.
C14_SectionsBySubreddit ==
    markdown_file.by = "save_comments_to_markdown" =>
        LET lines == markdown_file.lines
            cs == user_comments
            headers == SortedSeq(HeaderLines(lines))
        IN /\ lines[4] = TotalLine(Len(cs))
           /\ [x \in 1..Len(headers) |-> lines[headers[x]].s] = FirstSeen(cs)
           /\ Cardinality({h \in 1..Len(lines) : lines[h].k = "heading"}) = Len(cs)
           /\ \A x \in 1..Len(headers) :
                 LET p == headers[x]
                     mine == SelectSeq(cs, LAMBDA c : c.subreddit = lines[p].s)
                     hs == HeadingsOfSection(lines, p)
                 IN /\ lines[p].n = Len(mine)
                    /\ Len(hs) = Len(mine)
                    /\ \A k \in 1..Len(hs) :
                          WrittenBlock(lines, hs[k]) = BlockOf(mine[k])

C14_Witness ==
    /\ codec_pc = "written"
    /\ markdown_file.by = "save_comments_to_markdown"
    /\ Len(user_comments) = 3
    /\ user_comments[1].subreddit = "remotework"
    /\ user_comments[2].subreddit = "productivity"
    /\ user_comments[3].subreddit = "remotework"
    /\ user_comments[1].body # user_comments[3].body
    /\ Len(SortedSeq(HeaderLines(markdown_file.lines))) = 2

----------------------------------------------------------------------------
(* parse_persona_file on any persona document *)

InitPersona ==
    /\ EmbedIdle
    /\ FetchIdle
    /\ InterestIdle
    /\ UrlIdle
    /\ NamesIdle
    /\ SentimentIdle
    /\ StoreIdle
    /\ CodecIdle
    /\ CliIdle
    /\ persona_file \in PersonaDocuments
    /\ persona_result = NoPersonaResult

NextPersona == ParsePersonaFileCall

SpecPersona == InitPersona /\ [][NextPersona]_vars

\* the kinds of the lines of a document
KindsOf(doc) == {doc[x].k : x \in 1..Len(doc)}

\* C15: parse_persona_file returns a record for every document; the
\* username is empty when no line holds the header text # User Persona:
\* u/<name>, the archetype is empty when no line holds a bold phrase
\* followed by a dash, top_subreddits is empty when no line holds the
\* label **Most Active Communities:**, and persona_text is the whole text.
C15_PersonaDefaults ==
    persona_result.called =>
        LET r == persona_result.record
            kinds == KindsOf(persona_file)
        IN /\ DOMAIN r = {"username", "archetype", "top_subreddits",
                          "persona_text"}
           /\ kinds \cap {"title", "title_inline"} = {} => r.username = ""
           /\ kinds \cap {"archetype", "archetype_hyphen"} = {} =>
                 r.archetype = ""
           /\ kinds \cap {"communities", "communities_alone"} = {} =>
                 r.top_subreddits = <<>>
           /\ r.persona_text = persona_file

C15_Witness ==
    /\ persona_result.called
    /\ persona_file = <<PTitle("alice"), PCommunitiesBad(<<"golang">>),
                        PText(<<"golang">>)>>
    /\ persona_result.record.username = "alice"
    /\ persona_result.record.archetype = ""
    /\ persona_result.record.top_subreddits = <<>>

----------------------------------------------------------------------------
(* The existence probes and initialize_collections *)

\* C16: a probe never raises and changes nothing in the store; it returns
\* TRUE exactly when the backend answered and holds a record of the user (a
\* comment whose payload names the user; the persona under the id of the
\* username), and FALSE when the backend call failed.
C16_ProbesNeverRaise ==
    store_call.op \in {"user_has_comments", "user_has_persona"} =>
        /\ ~ store_call.raised
        /\ Backend = store_call.before
        /\ store_call.backend = "error" => ~ store_call.result
        /\ store_call.op = "user_has_comments" =>
              (store_call.result <=>
                  /\ store_call.backend = "ok"
                  /\ \E pt \in coll_comments :
                        pt.payload.username = store_call.username)
        /\ store_call.op = "user_has_persona" =>
              (store_call.result <=>
                  /\ store_call.backend = "ok"
                  /\ \E pt \in coll_personas :
                        pt.id = Md5Uuid(store_call.username))

C16_Witness ==
    /\ store_call.op = "user_has_comments"
    /\ store_call.username = "alice"
    /\ store_call.backend = "error"
    /\ ~ store_call.result
    /\ \E pt \in coll_comments : pt.payload.username = "alice"

\* the collections initialize_collections is to provide
BothCollections == {CommentsCollection, PersonasCollection}

\* C17: initialize_collections creates exactly the collections of the two
\* that did not exist, each once, with the configured vector size and cosine
\* distance; a collection that existed keeps its configuration and every
\* collection keeps its records; after the call has returned both exist (so
\* that a second call creates nothing).
C17_CreatesOnlyMissingCollections ==
    store_call.op = "initialize_collections" =>
        LET before == store_call.before
            made == {store_call.created[k].collection_name :
                        k \in 1..Len(store_call.created)}
        IN /\ Cardinality(made) = Len(store_call.created)
           /\ made \subseteq BothCollections \ before.existing
           /\ \A k \in 1..Len(store_call.created) :
                 store_call.created[k].vectors_config =
                    [size |-> 768, distance |-> "Cosine"]
           /\ existing = before.existing \cup made
           /\ \A name \in existing :
                 vectors_config[name] =
                    IF name \in before.existing
                    THEN before.vectors_config[name]
                    ELSE [size |-> 768, distance |-> "Cosine"]
           /\ coll_comments = before.comments
           /\ coll_personas = before.personas
           /\ ~ store_call.raised =>
                 /\ BothCollections \subseteq existing
                 /\ made = BothCollections \ before.existing

C17_Witness ==
    /\ store_call.op = "initialize_collections"
    /\ ~ store_call.raised
    /\ store_call.before.existing = {CommentsCollection}
    /\ Len(store_call.created) = 1
    /\ store_call.created[1].collection_name = PersonasCollection
    /\ vectors_config[CommentsCollection].size = 384
    /\ coll_comments # {}

----------------------------------------------------------------------------
(* search_similar: the fields of a result *)

\* the points of the collection a search was made in
SearchedPoints ==
    IF store_call.collection = "comments" THEN coll_comments ELSE coll_personas

----------------------------------------------------------------------------
(* The loops of the commands *)

InitCli ==
    /\ EmbedIdle
    /\ FetchIdle
    /\ InterestIdle
    /\ UrlIdle
    /\ NamesIdle
    /\ SentimentIdle
    /\ StoreIdle
    /\ CodecIdle
    /\ PersonaIdle
    /\ CliIdle

NextCli ==
    \/ \E command \in CliCommands, items \in CliItemLists :
          CliLoopStart(command, items)
    \/ CliStepReturns
    \/ CliStepRaises

SpecCli == InitCli /\ [][NextCli]_vars

\* C19: in the loops of fetch, personas and embed an exception in the body
\* never leaves the loop: it is printed for the user or file at hand and the
\* loop goes on, so that at every moment each item before the current one
\* has its line, failed or not, and at the end every item of the list has
\* been tried (its first call was made) and has its line.
C19_FailureOfOneUserIsIsolated ==
    /\ cli_pc # "raised"
    /\ cli_pc = "loop" => (Len(cli_log) = cli_i - 1 /\ cli_i <= Len(cli_items))
    /\ cli_pc = "done" => Len(cli_log) = Len(cli_items)
    /\ \A k \in 1..Len(cli_log) :
          /\ cli_log[k].item = cli_items[k]
          /\ cli_log[k].calls >= 1
          /\ cli_log[k].printed = "ok" =>
                cli_log[k].calls = Len(CliSteps(cli_command))

C19_Witness ==
    /\ cli_pc = "done"
    /\ cli_command = "embed_comments"
    /\ cli_items = <<"alice", "bob", "alice">>
    /\ cli_log[1].printed = "failed"
    /\ cli_log[2].printed = "ok"
    /\ cli_log[3].printed = "failed"
    /\ cli_log[3].calls = 2

\* C20: a failing batch of analyze_all (the LLM call raises, or the answer
\* cannot be parsed) does not abort the remaining batches: however a batch
\* ends, analyze_all stops only after every batch of the partition was sent,
\* and the results of the answered batches are all there.
C20_FailedBatchIsIsolated ==
    LET N == Len(comments)
        B == analyzer.batch_size
    IN pc \in {"returned", "raised"} =>
          /\ Len(calls) = Ceil(N, B)
          /\ all_results = Concat(batch_results)

----------------------------------------------------------------------------
(* parse_usernames on any user file *)

UserLines ==
    { <<>>,
      <<"SP", "SP">>,
      <<"a">>,
      <<"SP", "a", "SP">>,
      <<"a", "SP", "b">>,
      <<"1", "ARROW", "a">>,
      <<"1", "ARROW", "SP", "a", "SP">>,
      <<"1", "ARROW">>,
      <<"1", "ARROW", "SP">>,
      <<"ARROW", "b">>,
      <<"1", "ARROW", "a", "ARROW", "b">>,
      <<"SP", "1", "SP", "ARROW", "SP", "b">> }

InitUsernames ==
    /\ EmbedIdle
    /\ FetchIdle
    /\ InterestIdle
    /\ UrlIdle
    /\ SentimentIdle
    /\ StoreIdle
    /\ CodecIdle
    /\ PersonaIdle
    /\ CliIdle
    /\ userfile \in SeqsUpTo(UserLines, MaxUserLines)
    /\ usernames = NoUsernames

NextUsernames == ParseUsernamesCall

SpecUsernames == InitUsernames /\ [][NextUsernames]_vars

\* a line without the white space at its two ends
Trimmed(line) ==
    LET inked == {x \in 1..Len(line) : line[x] # "SP"}
    IN IF inked = {} THEN <<>> ELSE SubSeq(line, MinOf(inked), MaxOf(inked))

\* what the format keeps of a line: the part after the first delimiter, or
\* the line when it has none, trimmed
KeptOfLine(line) ==
    LET arrows == {x \in 1..Len(line) : line[x] = "ARROW"}
    IN IF arrows = {} THEN Trimmed(line)
       ELSE Trimmed(SubSeq(line, MinOf(arrows) + 1, Len(line)))

\* C21: parse_usernames returns, in file order, what each line keeps: the
\* trimmed part after the first delimiter of a line that has one, the
\* trimmed line otherwise; a line that keeps nothing (a blank line, or a
\* line with nothing after the delimiter) gives no entry, and no entry is
\* empty.
C21_OneUsernamePerLine ==
    usernames.called =>
        LET giving == SortedSeq({k \in 1..Len(userfile) :
                                    KeptOfLine(userfile[k]) # <<>>})
        IN /\ Len(usernames.value) = Len(giving)
           /\ \A j \in 1..Len(giving) :
                 usernames.value[j] = KeptOfLine(userfile[giving[j]])
           /\ \A j \in 1..Len(usernames.value) : usernames.value[j] # <<>>

C21_Witness ==
    /\ usernames.called
    /\ userfile = << <<"1", "ARROW", "a", "ARROW", "b">>,
                     <<"SP", "SP">>,
                     <<"1", "ARROW", "SP">> ,
                     <<"SP", "a", "SP">> >>
    /\ usernames.value = << <<"a", "ARROW", "b">>, <<"a">> >>

----------------------------------------------------------------------------
(* _parse_submission_id on any URL, through its two callers *)

UrlPieces ==
    {PostBase, UserBase, OtherBase, Scheme, CommentsPiece, ShortPiece,
     IdPiece("abc123"), IdPiece("x9"), TitlePiece}

InitReddit ==
    /\ EmbedIdle
    /\ FetchIdle
    /\ InterestIdle
    /\ SentimentIdle
    /\ StoreIdle
    /\ CodecIdle
    /\ PersonaIdle
    /\ CliIdle
    /\ NamesIdle
    /\ post_url \in SeqsUpTo(UrlPieces, MaxUrlPieces)
    /\ url_call = NoUrlCall

NextReddit ==
    \/ GetSubmission
    \/ GetTopLevelComments

SpecReddit == InitReddit /\ [][NextReddit]_vars

\* the places of the URL where the text k is followed by a letter or digit
IdPlaces(url, k) ==
    {p \in 1..(Len(url) - 1) : url[p].k = k /\ url[p + 1].lead # <<>>}

\* the URL of a post, in one of the forms the client documents:
\* https://www.reddit.com/r/<subreddit>/comments/<id>... or
\* https://redd.it/<id>
IsPostUrl(url) ==
    /\ Len(url) >= 3
    /\ url[3].k = "id"
    /\ \/ url[1] = PostBase /\ url[2] = CommentsPiece
       \/ url[1] = Scheme /\ url[2] = ShortPiece

\* the id the two expressions give, the one for /comments/ first
IdOfUrl(url) ==
    IF IdPlaces(url, "comments") # {}
    THEN AlnumRun(url, MinOf(IdPlaces(url, "comments")) + 1)
    ELSE AlnumRun(url, MinOf(IdPlaces(url, "short")) + 1)

\* C23: the id is the one after the first /comments/ that has
\* one, else the one after redd.it/; every URL that is not the URL of a
\* post makes the call raise ValueError, and a call that raises ValueError
\* has issued no call to Reddit.
C23_RaisesForEveryNonPostUrl ==
    url_call.op # "none" =>
        /\ url_call.outcome # "ValueError" => url_call.id = IdOfUrl(post_url)
        /\ ~ IsPostUrl(post_url) => url_call.outcome = "ValueError"
        /\ url_call.outcome = "ValueError" => url_call.api = <<>>

----------------------------------------------------------------------------
(* The interest command on any thread *)

ThreadAuthors == {"alice", "bob"}

RedditScores == {-3, 2}

ThreadLists ==
    UNION {{[k \in 1..n |-> [id |-> k, author |-> a[k], score |-> s[k]]] :
              a \in [1..n -> ThreadAuthors], s \in [1..n -> RedditScores]}
           : n \in 0..MaxThread}

InterestOptions ==
    [threshold : {3, -5}, min_score : {0, 2}, batch_size : {0, 1, 2}]

InitInterest ==
    /\ EmbedIdle
    /\ FetchIdle
    /\ StoreIdle
    /\ CodecIdle
    /\ PersonaIdle
    /\ CliIdle
    /\ NamesIdle
    /\ UrlIdle
    /\ analyzer = NoAnalyzer
    /\ ctor = NoCtor
    /\ comments = <<>>
    /\ pc = "idle"
    /\ i = 0
    /\ all_results = <<>>
    /\ calls = <<>>
    /\ batch_results = <<>>
    /\ last_response = <<>>
    /\ error = NoError
    /\ fetched \in ThreadLists
    /\ options \in InterestOptions
    /\ interest_pc = "start"
    /\ output_file = NoOutput

NextInterest ==
    \/ InterestFetchFails
    \/ InterestFilter
    \/ InterestConstruct
    \/ InterestAnalyzeStart
    \/ InterestAnalyzeBatch
    \/ InterestAnalyzeReturn
    \/ InterestRaises
    \/ InterestWrite

SpecInterest == InitInterest /\ [][NextInterest]_vars

\* the places of the results that reach the threshold
Qualifying == {k \in 1..Len(all_results) :
                  all_results[k].score >= options.threshold}

\* C24: the output file holds exactly the usernames of the results whose
\* score reaches the threshold, each once, in the order of their first
\* qualifying result; no file is written when no result qualifies; and every
\* comment handed to the analyzer has a Reddit score of at least min-score.
C24_ThresholdAndMinScore ==
    /\ \A b \in 1..Len(calls) : \A k \in 1..Len(calls[b]) :
          calls[b][k].score >= options.min_score
    /\ output_file.exists => interest_pc = "done"
    /\ interest_pc = "done" =>
          LET lines == output_file.lines
              FirstAt(name) ==
                  MinOf({k \in Qualifying : all_results[k].username = name})
          IN /\ output_file.exists <=> Qualifying # {}
             /\ Range(lines) = {all_results[k].username : k \in Qualifying}
             /\ \A x, y \in 1..Len(lines) :
                   x < y => FirstAt(lines[x]) < FirstAt(lines[y])

\* C29: every line of the output file is the author of a comment of the
\* list that was analyzed (the fetched top-level comments that passed the
\* min-score filter).
C29_WrittenNamesAreAuthors ==
    output_file.exists =>
        \A x \in 1..Len(output_file.lines) :
            \E k \in 1..Len(comments) :
                comments[k].author = output_file.lines[x]

----------------------------------------------------------------------------
(* Runs of fetch over one output directory *)

\* some files are there before the first run (written by an earlier fetch)
InitFetch ==
    /\ EmbedIdle
    /\ SentimentIdle
    /\ StoreIdle
    /\ CodecIdle
    /\ PersonaIdle
    /\ CliIdle
    /\ NamesIdle
    /\ UrlIdle
    /\ InterestIdle
    /\ \E there \in SUBSET Usernames :
          out_dir = [u \in Usernames |->
                        IF u \in there
                        THEN [exists |-> TRUE, writes |-> 1, content |-> "v1"]
                        ELSE NoCommentFile]
    /\ fetch_run = NoFetchRun

NextFetch ==
    \/ \E names \in SeqsUpTo(Usernames, MaxUsers) : FetchStart(names)
    \/ FetchUserSaved
    \/ FetchUserFails
    \/ FetchSaveFails
    \/ FetchDone

SpecFetch == InitFetch /\ [][NextFetch]_vars

\* C30: over any runs of fetch, the file of a user is written at most once;
\* a file that is there when a run starts is left as it is by the run; a
\* user whose fetch failed in the run has no file; and a run attempts every
\* user of its list who has no file when it starts.
C30_FileWrittenAtMostOnce ==
    \A u \in Usernames :
        /\ out_dir[u].writes <= 1
        /\ (fetch_run.pc # "idle" /\ fetch_run.start[u].exists) =>
              out_dir[u] = fetch_run.start[u]
        /\ u \in fetch_run.failed => ~ out_dir[u].exists
        /\ (fetch_run.pc # "idle" /\ u \in Range(fetch_run.usernames)
               /\ ~ fetch_run.start[u].exists) =>
              u \in Range(fetch_run.to_process)

----------------------------------------------------------------------------
(* Runs of embed over one input directory *)

AliceComments == CommentFileName(<<"alice">>)

AlicePersonaLower == <<"alice", "_persona", ".md">>

AlicePersona == <<"alice", "_Persona", ".md">>

AliceXPersona == <<"alice", "-", "x", "_Persona", ".md">>

EmbedFileNames == {AliceComments, AlicePersonaLower, AlicePersona, AliceXPersona}

EmbedUsers == {NoUser, <<"alice">>, <<"alice", "_persona">>, <<"alice", "-", "x">>}

InitEmbed ==
    /\ SentimentIdle
    /\ CodecIdle
    /\ PersonaIdle
    /\ CliIdle
    /\ NamesIdle
    /\ UrlIdle
    /\ InterestIdle
    /\ FetchIdle
    /\ existing \in {{}, BothCollections}
    /\ vectors_config = [n \in existing |-> VectorParams]
    /\ store_call = NoCall
    /\ coll_comments = {}
    /\ coll_personas = {}
    /\ now = 0
    /\ store_outcome = "none"
    /\ ids_used = {}
    /\ stored_comments = {}
    /\ stored_personas = {}
    /\ in_dir \in SUBSET EmbedFileNames
    /\ embed_run = NoEmbedRun
    /\ embed_faults = MaxFaults

NextEmbed ==
    \/ \E collection \in {"comments", "personas", "all"}, user \in EmbedUsers,
          skip_existing \in BOOLEAN :
          EmbedStart(collection, user, skip_existing)
    \/ EmbedInit
    \/ EmbedInitRaises
    \/ EmbedProbeComments
    \/ EmbedProbeCommentsFails
    \/ EmbedProbeCommentsEnd
    \/ EmbedCommentStored
    \/ EmbedCommentFails
    \/ EmbedCommentFileDone
    \/ EmbedCommentsEnd
    \/ EmbedProbePersona
    \/ EmbedProbePersonaFails
    \/ EmbedProbePersonasEnd
    \/ EmbedPersonaStored
    \/ EmbedPersonaFails
    \/ EmbedPersonasEnd

SpecEmbed == InitEmbed /\ [][NextEmbed]_vars

\* C25: in every run of embed, an upsert is issued only after
\* initialize_collections has returned in that run, and then both
\* collections exist; a run in which initialize_collections raised has
\* issued no upsert.
C25_InitializeBeforeUpsert ==
    /\ embed_run.upserts > 0 =>
          (embed_run.initialized /\ BothCollections \subseteq existing)
    /\ embed_run.pc \in {"probe_comments", "comments", "probe_personas",
                         "personas", "done"} => embed_run.initialized
    /\ embed_run.pc = "raised" =>
          (embed_run.upserts = 0 /\ ~ embed_run.initialized)

C25_Witness ==
    /\ embed_run.pc = "done"
    /\ embed_run.initialized
    /\ embed_run.upserts = 3
    /\ embed_run.start = {}
    /\ Cardinality(coll_comments) = 2
    /\ Cardinality(coll_personas) = 1

\* the ids and payloads of a set of points
IdsAndPayloads(points) == {[id |-> pt.id, payload |-> pt.payload] : pt \in points}

\* every comment of every file the run goes over was stored when it started
AllStoredAtStart ==
    \A k \in 1..Len(embed_run.comment_files) :
        LET f == embed_run.comment_files[k]
        IN \A x \in 1..Len(CommentsIn(f)) :
              \E pt \in embed_run.start :
                  pt.payload = CommentPoint(CommentsIn(f)[x], NameText(Stem(f))).payload

\* C22: a run of embed over comment files whose comments are all stored
\* already (the probe answered False, or the run has --no-skip-existing)
\* leaves the comments collection with the ids and payloads it had when the
\* run started.
C22_ReembeddingChangesNothing ==
    (embed_run.pc \notin {"idle", "init"} /\ AllStoredAtStart) =>
        IdsAndPayloads(coll_comments) = IdsAndPayloads(embed_run.start)

C22_Witness ==
    /\ embed_run.pc = "done"
    /\ embed_run.skip_existing
    /\ embed_run.upserts = 2
    /\ Cardinality(embed_run.start) = 2
    /\ IdsAndPayloads(coll_comments) = IdsAndPayloads(embed_run.start)

\* the run is past the discovery of its files
Discovered ==
    embed_run.pc \in {"probe_comments", "comments", "probe_personas",
                      "personas", "done"}

\* the name ends in _persona.md, whatever the casing of the suffix
IsPersonaName(f) == EndsWith(LowerName(f), <<"_persona", ".md">>)

\* C26 as stated: the persona files of a run all end in _Persona.md with
\* this exact casing, and no comment file of a run ends in _persona.md in
\* any casing, so that a file <u>_persona.md is in neither list.
C26_PersonaNamesInNeitherList ==
    Discovered =>
        /\ \A f \in Range(embed_run.persona_files) :
              EndsWith(f, <<"_Persona", ".md">>)
        /\ \A f \in Range(embed_run.comment_files) : ~ IsPersonaName(f)
        /\ AlicePersonaLower \notin
              Range(embed_run.persona_files) \cup Range(embed_run.comment_files)

\* C26, amended: the persona files of a run all end in _Persona.md with this
\* exact casing; a run without --user has no comment file that ends in
\* _persona.md in any casing; a run with --user X has no comment file but
\* X.md and no persona file but X_Persona.md, so that a file <u>_persona.md
\* is never a persona file, and is a comment file only of a run whose
\* --user is <u>_persona.
C26_DiscoveryByCasing ==
    Discovered =>
        /\ \A f \in Range(embed_run.persona_files) :
              EndsWith(f, <<"_Persona", ".md">>)
        /\ embed_run.user = NoUser =>
              \A f \in Range(embed_run.comment_files) : ~ IsPersonaName(f)
        /\ embed_run.user # NoUser =>
              /\ Range(embed_run.comment_files) \subseteq
                    {CommentFileName(embed_run.user)}
              /\ Range(embed_run.persona_files) \subseteq
                    {embed_run.user \o <<"_Persona", ".md">>}
        /\ AlicePersonaLower \notin Range(embed_run.persona_files)
        /\ AlicePersonaLower \in Range(embed_run.comment_files) =>
              embed_run.user = <<"alice", "_persona">>

\* a run without --user over a directory that holds alice_persona.md, the
\* comments of alice and a persona in the other casing: the comments and the
\* other persona are stored, alice_persona.md is in neither list
C26_Witness ==
    /\ embed_run.pc = "done"
    /\ embed_run.user = NoUser
    /\ embed_run.collection = "all"
    /\ in_dir = {AliceComments, AlicePersonaLower, AlicePersona}
    /\ embed_run.comment_files = <<AliceComments>>
    /\ embed_run.persona_files = <<AlicePersona>>
    /\ embed_run.upserts = 3

\* C28: every persona in the personas collection is stored under the id of
\* the name the filter probes for its file, so that user_has_persona of
\* that name finds it; and a run that has stored every one of its persona
\* files leaves as many personas in the collection, at least, as it had
\* files.
C28_ProbeKeyIsStoredKey ==
    /\ \A pt \in coll_personas :
          pt.id = UsernameToUuid(ProbedName(pt.payload.persona_text))
    /\ (/\ embed_run.pc = "done"
        /\ embed_run.collection = "personas"
        /\ embed_run.upserts = Len(embed_run.persona_files))
       => Cardinality(coll_personas) >= Len(embed_run.persona_files)

----------------------------------------------------------------------------
(* Repeated runs of embed with --skip-existing over one input directory.   *)
(* The failures of the backend are transient: embed_faults of them are     *)
(* left, and none after that.  A run that has ended is followed by another *)
(* run, and a run that has started goes on, which is the weak fairness of  *)
(* the steps.                                                              *)

InitEmbedFair ==
    /\ SentimentIdle
    /\ CodecIdle
    /\ PersonaIdle
    /\ CliIdle
    /\ NamesIdle
    /\ UrlIdle
    /\ InterestIdle
    /\ FetchIdle
    /\ existing \in {{}, BothCollections}
    /\ vectors_config = [n \in existing |-> VectorParams]
    /\ store_call = NoCall
    /\ coll_comments = {}
    /\ coll_personas = {}
    /\ now = 0
    /\ store_outcome = "none"
    /\ ids_used = {}
    /\ stored_comments = {}
    /\ stored_personas = {}
    /\ in_dir \in SUBSET EmbedFileNames
    /\ embed_run = NoEmbedRun
    /\ embed_faults \in 0..MaxFaults

NextEmbedFair ==
    \/ \E collection \in {"comments", "all"} :
          EmbedStart(collection, NoUser, TRUE)
    \/ EmbedInit
    \/ EmbedInitRaises
    \/ EmbedProbeComments
    \/ EmbedProbeCommentsFails
    \/ EmbedProbeCommentsEnd
    \/ EmbedCommentStored
    \/ EmbedCommentFails
    \/ EmbedCommentFileDone
    \/ EmbedCommentsEnd
    \/ EmbedProbePersona
    \/ EmbedProbePersonaFails
    \/ EmbedProbePersonasEnd
    \/ EmbedPersonaStored
    \/ EmbedPersonaFails
    \/ EmbedPersonasEnd

SpecEmbedFair ==
    InitEmbedFair /\ [][NextEmbedFair]_vars /\ WF_vars(NextEmbedFair)

\* the comments of f that the comments collection holds
StoredOf(f) ==
    {x \in 1..Len(CommentsIn(f)) :
        \E pt \in coll_comments :
            pt.id = CommentPoint(CommentsIn(f)[x], NameText(Stem(f))).id}

\* every comment of every comment file of the directory is stored
AllCommentsStored ==
    \A f \in in_dir :
        ~ IsPersonaName(f) => StoredOf(f) = 1..Len(CommentsIn(f))

\* C27: under repeated runs of embed with --skip-existing and transient
\* failures only, every comment of every comment file of the directory is
\* stored in the end, and stays stored.
C27_EventuallyAllStored == <>[]AllCommentsStored

====
